---- MODULE Spec2Model ----
(***************************************************************************)
(* Sudoku puzzle generation, uniqueness counting, human-style solving and  *)
(* rating, as implemented in src/src/lib/board-generator.ts (the           *)
(* technique-based SudokuGenerator, lines 407-878), src/src/lib/           *)
(* candidates.ts and src/src/lib/policy.ts (policy, rating and             *)
(* human-solver sections).                                                 *)
(*                                                                         *)
(* A grid is a function grid[row][col] with row, col in 0..8 and values in *)
(* 0..9 (0 = empty), as the number[][] of the source.  A candidate store   *)
(* (Map<string, Set<number>>) is a function whose DOMAIN is the set of     *)
(* keys present; a key is the pair <<row, col>>.  The store is filled by   *)
(* buildCandidates in row-major order and entries are only ever deleted,   *)
(* so the Map's iteration order is the row-major order of its keys.        *)
(*                                                                         *)
(* Recursive searches of the source are modelled by explicit-stack step    *)
(* functions (CountStep, FillStep) and loop bodies by one step function    *)
(* per iteration (SolveIter); a whole call is the step function iterated   *)
(* to its final state.                                                     *)
(***************************************************************************)
EXTENDS Integers, Sequences, FiniteSets, TLC

(***************************************************************************)
(* Generic helpers                                                         *)
(***************************************************************************)

\* A function as an explicit table of its values.
Table(f) == f @@ <<>>

\* The element of a one-element set: Only({F(x) : x \in {e}}) is F(e) with e
\* evaluated once, before F.
Only(S) == CHOOSE x \in S : TRUE

\* The concatenation ss[lo] \o ss[lo+1] \o ... \o ss[hi] of a sequence of sequences.
RECURSIVE Concat(_, _, _)
Concat(ss, lo, hi) ==
  IF lo > hi THEN <<>>
  ELSE IF lo = hi THEN ss[lo]
  ELSE LET mid == (lo + hi) \div 2
       IN Concat(ss, lo, mid) \o Concat(ss, mid + 1, hi)

\* The sequence F(lo) \o F(lo+1) \o ... \o F(hi): a for-loop that appends.
Flat(lo, hi, F(_)) ==
  IF lo > hi THEN <<>>
  ELSE Only({Concat(parts, 1, hi - lo + 1) :
               parts \in {Table([i \in 1..(hi - lo + 1) |-> F(lo + i - 1)])}})

\* The sequence F(s[1]) \o ... \o F(s[Len(s)]): a for-of loop that appends.
FlatSeq(s, F(_)) ==
  Only({Flat(1, Len(elems), LAMBDA i : F(elems[i])) : elems \in {s}})

\* The elements of a set of integers in ascending order.
SortedSeq(S) ==
  IF S = {} THEN <<>>
  ELSE LET lo == CHOOSE a \in S : \A b \in S : a <= b
           hi == CHOOSE a \in S : \A b \in S : a >= b
       IN Flat(lo, hi, LAMBDA i : IF i \in S THEN <<i>> ELSE <<>>)

\* Number of doublings when a step function is iterated to its final state:
\* up to 2^RunDepth steps.
RunDepth == 24

\* The folds below (a loop that updates an accumulator) split their range in
\* two; each first inspects the accumulator so that it is computed before
\* the fold descends.

Last(s) == s[Len(s)]
Front(s) == SubSeq(s, 1, Len(s) - 1)

(***************************************************************************)
(* Grid and unit topology (candidates.ts)                                  *)
(***************************************************************************)

Idx == 0..8
Digits == 1..9

EmptyGrid == [row \in Idx |-> [col \in Idx |-> 0]]

cellKey(row, col) == <<row, col>>

getBox(row, col) == (row \div 3) * 3 + (col \div 3)

cellsInRow(row) == [i \in 1..9 |-> <<row, i - 1>>]

cellsInCol(col) == [i \in 1..9 |-> <<i - 1, col>>]

cellsInBox(boxIdx) ==
  LET startRow == (boxIdx \div 3) * 3
      startCol == (boxIdx % 3) * 3
  IN [i \in 1..9 |-> <<startRow + ((i - 1) \div 3), startCol + ((i - 1) % 3)>>]

\* Row-major list of all 81 positions.
AllPositions == [i \in 1..81 |-> <<(i - 1) \div 9, (i - 1) % 9>>]

\* The elements of a sequence, and a sequence extended by the elements
\* of another that it does not hold yet (Set insertion order).
SeqToSet(s) == {s[i] : i \in DOMAIN s}
AppendNew(s, t) == s \o SelectSeq(t, LAMBDA x : x \notin SeqToSet(s))

\* Peers without the cells the box adds.
getPeersRowCol(row, col) ==
  SelectSeq(cellsInRow(row), LAMBDA p : p[2] # col)
    \o SelectSeq(cellsInCol(col), LAMBDA p : p[1] # row)

\* The peers of a cell in the order of the Set they are collected in: the
\* row, then the column, then what the box adds.
getPeers(row, col) ==
  AppendNew(SelectSeq(cellsInRow(row), LAMBDA p : p[2] # col)
              \o SelectSeq(cellsInCol(col), LAMBDA p : p[1] # row),
            SelectSeq(cellsInBox(getBox(row, col)), LAMBDA p : p[1] # row \/ p[2] # col))

PeersOf == [row \in Idx |-> [col \in Idx |-> getPeers(row, col)]]
PeerSet == [row \in Idx |-> [col \in Idx |-> SeqToSet(PeersOf[row][col])]]

\* 9 rows, then 9 columns, then 9 boxes.
getAllUnits ==
  [u \in 1..27 |-> IF u <= 9 THEN cellsInRow(u - 1)
                   ELSE IF u <= 18 THEN cellsInCol(u - 10)
                   ELSE cellsInBox(u - 19)]

\* Objects: heap is the sequence of the grids allocated so far and a reference
\* is an index into it.  grid.map((row) => [...row]) allocates a new grid
\* holding the same 81 values and returns its reference.
\* A clone that hands back the same object.
SameGrid(heap, ref) == [heap |-> heap, ref |-> ref]

cloneGrid(heap, ref) ==
  [heap |-> Append(heap, [row \in Idx |-> [col \in Idx |-> heap[ref][row][col]]]),
   ref |-> Len(heap) + 1]

countEmptyCells(grid) == Cardinality({p \in Idx \X Idx : grid[p[1]][p[2]] = 0})

(***************************************************************************)
(* Candidate store (candidates.ts)                                         *)
(***************************************************************************)

\* candidates.get(key)?.has(digit)
HasCand(candidates, row, col, digit) ==
  <<row, col>> \in DOMAIN candidates /\ digit \in candidates[<<row, col>>]

\* The keys of the store in Map iteration order.
Entries(candidates) ==
  SelectSeq(AllPositions, LAMBDA p : p \in DOMAIN candidates)

eliminate(candidates, row, col, num) ==
  IF <<row, col>> \in DOMAIN candidates
  THEN [candidates EXCEPT ![<<row, col>>] = {d \in @ : d # num}]
  ELSE candidates

\* for (const [r, c] of cells[lo..hi]) eliminate(candidates, r, c, num)
RECURSIVE EliminateEach(_, _, _, _, _)
EliminateEach(candidates, cells, lo, hi, num) ==
  IF DOMAIN candidates = {} \/ lo > hi THEN candidates
  ELSE IF lo = hi THEN eliminate(candidates, cells[lo][1], cells[lo][2], num)
  ELSE LET mid == (lo + hi) \div 2
       IN Only({EliminateEach(left, cells, mid + 1, hi, num) :
                  left \in {EliminateEach(candidates, cells, lo, mid, num)}})

\* The second loop of buildCandidates over the positions lo..hi (row-major).
RECURSIVE BuildRange(_, _, _, _)
BuildRange(grid, candidates, lo, hi) ==
  IF DOMAIN candidates = {} \/ lo > hi THEN candidates
  ELSE IF lo = hi
  THEN Only({IF num # 0
              THEN EliminateEach(candidates, PeersOf[p[1]][p[2]], 1,
                                 Len(PeersOf[p[1]][p[2]]), num)
              ELSE candidates :
                p \in {AllPositions[lo]},
                num \in {grid[AllPositions[lo][1]][AllPositions[lo][2]]}})
  ELSE LET mid == (lo + hi) \div 2
       IN Only({BuildRange(grid, left, mid + 1, hi) :
                  left \in {BuildRange(grid, candidates, lo, mid)}})

buildCandidates(grid) ==
  Only({BuildRange(grid, full, 1, 81) :
          full \in {Table([p \in {q \in Idx \X Idx : grid[q[1]][q[2]] = 0} |-> Digits])}})

\* The value eliminate returns: whether the cell has an entry.
eliminateReturns(candidates, row, col, num) == <<row, col>> \in DOMAIN candidates

\* A place that leaves the entry of the cell in the store.
placeKeepingEntry(grid, candidates, row, col, num) ==
  [grid |-> [grid EXCEPT ![row][col] = num],
   candidates |-> EliminateEach(candidates, PeersOf[row][col], 1,
                                Len(PeersOf[row][col]), num)]

\* place: the grid and the store after the call.
place(grid, candidates, row, col, num) ==
  [grid |-> [grid EXCEPT ![row][col] = num],
   candidates |->
     Only({EliminateEach(rest, PeersOf[row][col], 1, Len(PeersOf[row][col]), num) :
             rest \in {Table([p \in DOMAIN candidates \ {<<row, col>>} |-> candidates[p]])}})]

(***************************************************************************)
(* Solution counter (board-generator.ts, SudokuGenerator)                  *)
(***************************************************************************)

copyAnyGrid(heap, ref) ==
  [heap |-> Append(heap, [row \in Idx |-> [col \in Idx |-> heap[ref][row][col]]]),
   ref |-> Len(heap) + 1]

\* A validity test on a given grid that skips the row.
isValidForGridNoRow(grid, row, col, num) ==
  LET startRow == row - (row % 3)
      startCol == col - (col % 3)
  IN /\ \A x \in Idx : grid[x][col] # num
     /\ \A i \in 0..2 : \A j \in 0..2 : grid[i + startRow][j + startCol] # num

isValidForGrid(grid, row, col, num) ==
  LET startRow == row - (row % 3)
      startCol == col - (col % 3)
  IN /\ \A x \in Idx : grid[row][x] # num
     /\ \A x \in Idx : grid[x][col] # num
     /\ \A i \in 0..2 : \A j \in 0..2 : grid[i + startRow][j + startCol] # num

\* State of one run of countSolutionsRecursive on the working grid `grid`
\* (object `ref`): the stack holds one frame per activation that is inside
\* its for-loop (its cell, the digit it is trying and its solutionCount);
\* pc = "call" is the entry of an activation at (row, col), "loop" the next
\* iteration of the top frame's loop, "ret" a return carrying val, "done"
\* the return of the outermost activation.
CountIdle ==
  [pc |-> "idle", ref |-> 0, grid |-> EmptyGrid, stack |-> <<>>,
   row |-> 0, col |-> 0, val |-> 0, maxSolutions |-> 0]

CountInit(ref, grid, maxSolutions) ==
  [pc |-> "call", ref |-> ref, grid |-> grid, stack |-> <<>>,
   row |-> 0, col |-> 0, val |-> 0, maxSolutions |-> maxSolutions]

\* One step of countSolutionsRecursive.  The tail calls over the end of a
\* row and over filled cells, and the loop iterations whose digit fails
\* isValidForGrid, are taken within the step.
countSolutionsRecursive(cs) ==
  IF cs.pc = "call" THEN
    LET rest == {i \in (cs.row * 9 + cs.col)..80 : cs.grid[i \div 9][i % 9] = 0}
    IN IF rest = {} THEN [cs EXCEPT !.pc = "ret", !.val = 1]
       ELSE LET i == CHOOSE a \in rest : \A b \in rest : a <= b
            IN [cs EXCEPT !.pc = "loop",
                          !.stack = Append(@, [row |-> i \div 9, col |-> i % 9,
                                               num |-> 1, solutionCount |-> 0])]
  ELSE IF cs.pc = "loop" THEN
    LET f == Last(cs.stack)
        ok == {num \in f.num..9 : isValidForGrid(cs.grid, f.row, f.col, num)}
    IN IF ok = {}
       THEN [cs EXCEPT !.pc = "ret", !.val = f.solutionCount, !.stack = Front(@)]
       ELSE LET num == CHOOSE a \in ok : \A b \in ok : a <= b
            IN [cs EXCEPT !.pc = "call", !.grid[f.row][f.col] = num,
                          !.stack[Len(cs.stack)].num = num,
                          !.row = f.row, !.col = f.col + 1]
  ELSE IF cs.pc = "ret" THEN
    IF cs.stack = <<>> THEN [cs EXCEPT !.pc = "done"]
    ELSE LET f == Last(cs.stack)
             solutionCount == f.solutionCount + cs.val
         IN IF solutionCount >= cs.maxSolutions
            THEN [cs EXCEPT !.grid[f.row][f.col] = 0, !.val = solutionCount,
                            !.stack = Front(@)]
            ELSE [cs EXCEPT !.grid[f.row][f.col] = 0, !.pc = "loop",
                            !.stack[Len(cs.stack)] =
                               [f EXCEPT !.num = f.num + 1,
                                         !.solutionCount = solutionCount]]
  ELSE cs

RECURSIVE RunCount(_, _)
RunCount(cs, k) ==
  IF cs.pc = "done" THEN cs
  ELSE IF k = 0 THEN countSolutionsRecursive(cs)
  ELSE Only({RunCount(half, k - 1) : half \in {RunCount(cs, k - 1)}})

\* The value returned by countSolutions(grid, maxSolutions).
countSolutions(grid, maxSolutions) ==
  Only({RunCount(start, RunDepth).val : start \in {CountInit(0, grid, maxSolutions)}})

hasUniqueSolution(grid) == countSolutions(grid, 2) = 1

(***************************************************************************)
(* Strings are sequences of one-character strings.                         *)
(***************************************************************************)

DigitChars == <<"0", "1", "2", "3", "4", "5", "6", "7", "8", "9">>

\* Number.prototype.toString for a non-negative integer.
RECURSIVE NumToString(_)
NumToString(n) ==
  IF n < 10 THEN <<DigitChars[n + 1]>>
  ELSE NumToString(n \div 10) \o <<DigitChars[(n % 10) + 1]>>

\* parseInt(ch) || 0 for a one-character string: NaN and 0 both give 0.
parseIntOrZero(ch) ==
  IF \E d \in 0..9 : DigitChars[d + 1] = ch
  THEN CHOOSE d \in 0..9 : DigitChars[d + 1] = ch
  ELSE 0

gridToString(grid) ==
  FlatSeq(AllPositions, LAMBDA p : NumToString(grid[p[1]][p[2]]))

\* The grid verifyPuzzleUniqueness builds from its board string.
boardToGrid(boardString) ==
  [row \in Idx |-> [col \in Idx |-> parseIntOrZero(boardString[row * 9 + col + 1])]]

(***************************************************************************)
(* Inputs of the solution counter                                          *)
(***************************************************************************)

\* A complete valid grid.
BaseGrid == [row \in Idx |-> [col \in Idx |-> ((3 * (row % 3) + (row \div 3) + col) % 9) + 1]]

\* The cells that an input may have empty: rows 0..2 of columns 0, 3, 6.
NumHoleCells == 9
HoleCells == [i \in 1..NumHoleCells |-> <<(i - 1) \div 3, 3 * ((i - 1) % 3)>>]

\* Largest cap of a direct countSolutions call.
MaxCap == 3

\* A given that is overwritten after the holes are made: none, a second 7
\* in row 8, or a 1 at (0, 3).
Overrides == {<<>>, <<8, 8, 7>>, <<0, 3, 1>>}

InputGrid(H, ov) ==
  LET holed == [row \in Idx |-> [col \in Idx |->
                  IF \E i \in H : HoleCells[i] = <<row, col>> THEN 0
                  ELSE BaseGrid[row][col]]]
  IN IF ov = <<>> THEN holed ELSE [holed EXCEPT ![ov[1]][ov[2]] = ov[3]]

\* The board string of a grid with the empty cells written as `blank`.
BoardString(grid, blank) ==
  [i \in 1..81 |-> LET v == grid[(i - 1) \div 9][(i - 1) % 9]
                   IN IF v = 0 THEN blank ELSE DigitChars[v + 1]]

(***************************************************************************)
(* What a grid's completions are, independently of the search              *)
(***************************************************************************)

\* No two filled peer cells hold the same digit.
ConflictFree(grid) ==
  \A p \in Idx \X Idx : grid[p[1]][p[2]] # 0 =>
     \A q \in PeerSet[p[1]][p[2]] : grid[q[1]][q[2]] # grid[p[1]][p[2]]

EmptyCells(grid) == SelectSeq(AllPositions, LAMBDA p : grid[p[1]][p[2]] = 0)

\* All ways to write into the first k empty cells a digit that no filled
\* peer holds, as sequences of k digits.
RECURSIVE Fillings(_, _, _)
Fillings(grid, cells, k) ==
  IF k = 0 THEN {<<>>}
  ELSE LET p == cells[k]
           free == Digits \ {grid[q[1]][q[2]] : q \in PeerSet[p[1]][p[2]]}
       IN {Append(a, d) : a \in Fillings(grid, cells, k - 1), d \in free}

\* The completions of a grid: the fillings of its empty cells in which no
\* two peers are equal; none if two givens already clash.
Completions(grid) ==
  LET cells == EmptyCells(grid)
  IN IF ~ConflictFree(grid) THEN {}
     ELSE {a \in Fillings(grid, cells, Len(cells)) :
             \A i \in 1..Len(cells) : \A j \in (i + 1)..Len(cells) :
                cells[j] \in PeerSet[cells[i][1]][cells[i][2]] => a[i] # a[j]}

NumCompletions(grid) == Cardinality(Completions(grid))

\* The character an input board string uses for an empty cell.
Blanks == {"0", "."}

\* The cap verifyPuzzleUniqueness passes to countSolutions.
VerifyCap == 3

(***************************************************************************)
(* Technique finders (policy.ts, human-solver section).  Each returns its  *)
(* findings as the array the source builds, in the order it pushes them.   *)
(***************************************************************************)

Technique ==
  <<"NakedSingle", "HiddenSingle", "LockedCandidate", "NakedPair", "HiddenPair",
    "NakedTriple", "HiddenTriple", "XWing", "XYWing">>

TECHNIQUE_ORDER ==
  [NakedSingle |-> 1, HiddenSingle |-> 2, LockedCandidate |-> 3, NakedPair |-> 4,
   HiddenPair |-> 5, NakedTriple |-> 6, HiddenTriple |-> 7, XWing |-> 8, XYWing |-> 9]

\* A missing technique (null) is the string "null".
\* A comparison that prefers the lighter technique.
isLighterThan(a, b) ==
  IF a = "null" THEN FALSE
  ELSE IF b = "null" THEN TRUE
  ELSE TECHNIQUE_ORDER[a] < TECHNIQUE_ORDER[b]

isHarderThan(a, b) ==
  IF b = "null" THEN TRUE
  ELSE IF a = "null" THEN FALSE
  ELSE TECHNIQUE_ORDER[a] > TECHNIQUE_ORDER[b]

Finding(row, col, num) == [row |-> row, col |-> col, num |-> num]

\* The cells of a list whose candidate set holds the digit.
CellsWith(candidates, cells, digit) ==
  SelectSeq(cells, LAMBDA p : HasCand(candidates, p[1], p[2], digit))

\* The cells of a list that are empty in the grid and hold the digit.
EmptyCellsWith(grid, candidates, cells, digit) ==
  SelectSeq(cells, LAMBDA p : grid[p[1]][p[2]] = 0 /\ HasCand(candidates, p[1], p[2], digit))

\* Findings for the digits, in ascending order, of a cell's candidate set
\* that satisfy Keep.
DigitsOf(candidates, p, Keep(_)) ==
  Flat(1, 9, LAMBDA d : IF d \in candidates[p] /\ Keep(d)
                        THEN <<Finding(p[1], p[2], d)>> ELSE <<>>)

\* A finder that reports no naked single.
noNakedSingles(grid, candidates) == <<>>

findNakedSingles(grid, candidates) ==
  FlatSeq(Entries(candidates),
          LAMBDA p : IF Cardinality(candidates[p]) = 1
                     THEN <<Finding(p[1], p[2], CHOOSE d \in candidates[p] : TRUE)>>
                     ELSE <<>>)

findHiddenSingles(grid, candidates) ==
  FlatSeq(getAllUnits,
          LAMBDA unit :
            Flat(1, 9, LAMBDA digit :
              LET possibleCells == EmptyCellsWith(grid, candidates, unit, digit)
              IN IF Len(possibleCells) = 1
                 THEN <<Finding(possibleCells[1][1], possibleCells[1][2], digit)>>
                 ELSE <<>>))

\* Pointing, for one box and one digit.
Pointing(grid, candidates, boxIdx, digit) ==
  LET cellsWithDigit == EmptyCellsWith(grid, candidates, cellsInBox(boxIdx), digit)
      rows == {cellsWithDigit[i][1] : i \in DOMAIN cellsWithDigit}
      cols == {cellsWithDigit[i][2] : i \in DOMAIN cellsWithDigit}
  IN IF Len(cellsWithDigit) > 1
     THEN (IF Cardinality(rows) = 1
           THEN LET row == CHOOSE r \in rows : TRUE
                IN Flat(0, 8, LAMBDA col :
                     IF getBox(row, col) # boxIdx /\ HasCand(candidates, row, col, digit)
                     THEN <<Finding(row, col, digit)>> ELSE <<>>)
           ELSE <<>>)
          \o
          (IF Cardinality(cols) = 1
           THEN LET col == CHOOSE c \in cols : TRUE
                IN Flat(0, 8, LAMBDA row :
                     IF getBox(row, col) # boxIdx /\ HasCand(candidates, row, col, digit)
                     THEN <<Finding(row, col, digit)>> ELSE <<>>)
           ELSE <<>>)
     ELSE <<>>

\* Claiming, for one row (isRow) or one column and one digit.
Claiming(grid, candidates, isRow, line, digit) ==
  LET lineCells == IF isRow THEN cellsInRow(line) ELSE cellsInCol(line)
      cellsWithDigit == EmptyCellsWith(grid, candidates, lineCells, digit)
      boxes == {getBox(cellsWithDigit[i][1], cellsWithDigit[i][2]) : i \in DOMAIN cellsWithDigit}
  IN IF Len(cellsWithDigit) > 1 /\ Cardinality(boxes) = 1
     THEN LET boxIdx == CHOOSE b \in boxes : TRUE
          IN FlatSeq(cellsInBox(boxIdx), LAMBDA p :
               IF (IF isRow THEN p[1] # line ELSE p[2] # line)
                    /\ HasCand(candidates, p[1], p[2], digit)
               THEN <<Finding(p[1], p[2], digit)>> ELSE <<>>)
     ELSE <<>>

findLockedCandidates(grid, candidates) ==
  Flat(0, 8, LAMBDA boxIdx : Flat(1, 9, LAMBDA digit : Pointing(grid, candidates, boxIdx, digit)))
    \o Flat(0, 8, LAMBDA row : Flat(1, 9, LAMBDA digit : Claiming(grid, candidates, TRUE, row, digit)))
    \o Flat(0, 8, LAMBDA col : Flat(1, 9, LAMBDA digit : Claiming(grid, candidates, FALSE, col, digit)))

\* The cells of a unit that have an entry whose size is within lo..hi.
SizedCells(candidates, unit, lo, hi) ==
  SelectSeq(unit, LAMBDA p : p \in DOMAIN candidates
                             /\ Cardinality(candidates[p]) >= lo
                             /\ Cardinality(candidates[p]) <= hi)

\* For every cell of the unit outside `own` that has an entry, one finding
\* per digit of the list that the entry holds.
OtherCells(candidates, unit, own, digits) ==
  FlatSeq(unit, LAMBDA p :
    IF p \notin own /\ p \in DOMAIN candidates
    THEN FlatSeq(digits, LAMBDA d : IF d \in candidates[p]
                                    THEN <<Finding(p[1], p[2], d)>> ELSE <<>>)
    ELSE <<>>)

findNakedPairs(candidates) ==
  FlatSeq(getAllUnits, LAMBDA unit :
    Only({
      Flat(1, Len(pairCells), LAMBDA i : Flat(i + 1, Len(pairCells), LAMBDA j :
        LET cands1 == SortedSeq(candidates[pairCells[i]])
            cands2 == SortedSeq(candidates[pairCells[j]])
        IN IF Len(cands1) = 2 /\ cands1[1] = cands2[1] /\ cands1[2] = cands2[2]
           THEN OtherCells(candidates, unit, {pairCells[i], pairCells[j]}, cands1)
           ELSE <<>>)) :
      pairCells \in {SizedCells(candidates, unit, 2, 2)}}))

findHiddenPairs(candidates) ==
  FlatSeq(getAllUnits, LAMBDA unit :
    Only({
      Flat(1, 8, LAMBDA digit1 : Flat(digit1 + 1, 9, LAMBDA digit2 :
        IF Len(cellsWithDigit[digit1]) = 2 /\ Len(cellsWithDigit[digit2]) = 2
             /\ cellsWithDigit[digit1][1] = cellsWithDigit[digit2][1]
             /\ cellsWithDigit[digit1][2] = cellsWithDigit[digit2][2]
        THEN FlatSeq(cellsWithDigit[digit1], LAMBDA p :
               DigitsOf(candidates, p, LAMBDA d : d # digit1 /\ d # digit2))
        ELSE <<>>)) :
      cellsWithDigit \in {Table([d \in Digits |-> CellsWith(candidates, unit, d)])}}))

findNakedTriples(candidates) ==
  FlatSeq(getAllUnits, LAMBDA unit :
    Only({
      LET n == Len(tripleCells)
      IN Flat(1, n - 2, LAMBDA i : Flat(i + 1, n - 1, LAMBDA j : Flat(j + 1, n, LAMBDA k :
           Only({
             IF Len(tripleDigits) = 3
             THEN OtherCells(candidates, unit,
                             {tripleCells[i], tripleCells[j], tripleCells[k]}, tripleDigits)
             ELSE <<>> :
             tripleDigits \in
               {AppendNew(AppendNew(SortedSeq(candidates[tripleCells[i]]),
                                    SortedSeq(candidates[tripleCells[j]])),
                          SortedSeq(candidates[tripleCells[k]]))}})))) :
      tripleCells \in {SizedCells(candidates, unit, 2, 3)}}))

findHiddenTriples(candidates) ==
  FlatSeq(getAllUnits, LAMBDA unit :
    Only({
      Flat(1, 7, LAMBDA d1 : Flat(d1 + 1, 8, LAMBDA d2 : Flat(d2 + 1, 9, LAMBDA d3 :
        Only({
          LET isHiddenTriple ==
                \A digit \in {d1, d2, d3} :
                  \A i \in DOMAIN cellsWithDigits[digit] :
                    cellsWithDigits[digit][i] \in SeqToSet(allCells)
          IN IF Len(allCells) = 3
                  /\ Len(cellsWithDigits[d1]) >= 2
                  /\ Len(cellsWithDigits[d2]) >= 2
                  /\ Len(cellsWithDigits[d3]) >= 2
                  /\ isHiddenTriple
             THEN FlatSeq(allCells, LAMBDA p :
                    IF p \in DOMAIN candidates
                    THEN DigitsOf(candidates, p, LAMBDA d : d # d1 /\ d # d2 /\ d # d3)
                    ELSE <<>>)
             ELSE <<>> :
          allCells \in {AppendNew(AppendNew(cellsWithDigits[d1], cellsWithDigits[d2]),
                                  cellsWithDigits[d3])}})))) :
      cellsWithDigits \in {Table([d \in Digits |-> CellsWith(candidates, unit, d)])}}))

\* The rows (byRow) or columns that hold the digit in exactly two cells,
\* each with the two positions along the line.
LinesWithTwo(candidates, digit, byRow) ==
  Flat(0, 8, LAMBDA a :
    LET at == SelectSeq([i \in 1..9 |-> i - 1],
                        LAMBDA b : IF byRow THEN HasCand(candidates, a, b, digit)
                                   ELSE HasCand(candidates, b, a, digit))
    IN IF Len(at) = 2 THEN <<[line |-> a, at |-> at]>> ELSE <<>>)

\* The row-based (byRow) or column-based X-Wings of one digit.
XWingsOf(candidates, digit, byRow) ==
  Only({
    Flat(1, Len(withTwo) - 1, LAMBDA i : Flat(i + 1, Len(withTwo), LAMBDA j :
      LET l1 == withTwo[i]
          l2 == withTwo[j]
      IN IF l1.at[1] = l2.at[1] /\ l1.at[2] = l2.at[2]
         THEN Flat(0, 8, LAMBDA a :
                IF a # l1.line /\ a # l2.line
                THEN FlatSeq(l1.at, LAMBDA b :
                       IF byRow
                       THEN (IF HasCand(candidates, a, b, digit)
                             THEN <<Finding(a, b, digit)>> ELSE <<>>)
                       ELSE (IF HasCand(candidates, b, a, digit)
                             THEN <<Finding(b, a, digit)>> ELSE <<>>))
                ELSE <<>>)
         ELSE <<>>)) :
    withTwo \in {LinesWithTwo(candidates, digit, byRow)}})

findXWing(candidates) ==
  Flat(1, 9, LAMBDA digit :
    XWingsOf(candidates, digit, TRUE) \o XWingsOf(candidates, digit, FALSE))

\* Two cells share a row, a column or a box.
Sees(r1, c1, r2, c2) ==
  r1 = r2 \/ c1 = c2 \/ getBox(r1, c1) = getBox(r2, c2)

findXYWing(candidates) ==
  LET biValueCells == SelectSeq(Entries(candidates),
                                LAMBDA p : Cardinality(candidates[p]) = 2)
  IN FlatSeq(biValueCells, LAMBDA pivot :
       LET potentialWings ==
             SelectSeq(biValueCells, LAMBDA cell :
               /\ cell # pivot
               /\ Sees(cell[1], cell[2], pivot[1], pivot[2])
               /\ Cardinality(candidates[cell] \cap candidates[pivot]) = 1)
           n == Len(potentialWings)
       IN Flat(1, n - 1, LAMBDA i : Flat(i + 1, n, LAMBDA j :
            LET wing1 == potentialWings[i]
                wing2 == potentialWings[j]
                wing1Other == CHOOSE c \in candidates[wing1] \ candidates[pivot] : TRUE
                wing2Other == CHOOSE c \in candidates[wing2] \ candidates[pivot] : TRUE
            IN IF wing1Other = wing2Other
               THEN FlatSeq(Entries(candidates), LAMBDA p :
                      IF /\ wing1Other \in candidates[p]
                         /\ Sees(p[1], p[2], wing1[1], wing1[2])
                         /\ Sees(p[1], p[2], wing2[1], wing2[2])
                         /\ p # wing1
                         /\ p # wing2
                      THEN <<Finding(p[1], p[2], wing1Other)>> ELSE <<>>)
               ELSE <<>>)))

(***************************************************************************)
(* solveHuman (policy.ts, human-solver section)                            *)
(***************************************************************************)

NoCounts == [t \in SeqToSet(Technique) |-> 0]

\* Techniques that place a digit; the others eliminate a candidate.
Placing == {"NakedSingle", "HiddenSingle"}

\* maxTechnique ? TECHNIQUE_ORDER[maxTechnique] : 999
NoCapOrder == 999
UncappedOrder(maxTechnique) == NoCapOrder
MaxOrderOf(maxTechnique) ==
  IF maxTechnique = "null" THEN NoCapOrder ELSE TECHNIQUE_ORDER[maxTechnique]

Find(technique, grid, candidates) ==
  CASE technique = "NakedSingle" -> findNakedSingles(grid, candidates)
    [] technique = "HiddenSingle" -> findHiddenSingles(grid, candidates)
    [] technique = "LockedCandidate" -> findLockedCandidates(grid, candidates)
    [] technique = "NakedPair" -> findNakedPairs(candidates)
    [] technique = "HiddenPair" -> findHiddenPairs(candidates)
    [] technique = "NakedTriple" -> findNakedTriples(candidates)
    [] technique = "HiddenTriple" -> findHiddenTriples(candidates)
    [] technique = "XWing" -> findXWing(candidates)
    [] technique = "XYWing" -> findXYWing(candidates)

\* for (const {row, col, num} of found[lo..hi]) place(grid, candidates, row, col, num)
RECURSIVE PlaceEach(_, _, _, _)
PlaceEach(st, found, lo, hi) ==
  IF DOMAIN st = {} \/ lo > hi THEN st
  ELSE IF lo = hi
  THEN place(st.grid, st.candidates, found[lo].row, found[lo].col, found[lo].num)
  ELSE LET mid == (lo + hi) \div 2
       IN Only({PlaceEach(left, found, mid + 1, hi) :
                  left \in {PlaceEach(st, found, lo, mid)}})

\* A loop over the findings that eliminates nothing.
EliminateNone(candidates, found, lo, hi) == candidates

\* for (const {row, col, num} of found[lo..hi]) eliminate(candidates, row, col, num)
RECURSIVE EliminateFound(_, _, _, _)
EliminateFound(candidates, found, lo, hi) ==
  IF DOMAIN candidates = {} \/ lo > hi THEN candidates
  ELSE IF lo = hi
  THEN eliminate(candidates, found[lo].row, found[lo].col, found[lo].num)
  ELSE LET mid == (lo + hi) \div 2
       IN Only({EliminateFound(left, found, mid + 1, hi) :
                  left \in {EliminateFound(candidates, found, lo, mid)}})

\* State of one run of solveHuman: its locals; pc = "loop" before the test
\* of the while loop, "done" after it; `last` is the technique and the
\* findings applied by the latest iteration.
SolveIdle ==
  [pc |-> "idle", ref |-> 0, grid |-> EmptyGrid, candidates |-> <<>>,
   counts |-> NoCounts, hardest |-> "null", steps |-> 0, initialSingles |-> 0,
   maxOrder |-> 0, progress |-> FALSE, last |-> [technique |-> "null", found |-> <<>>]]

\* The state at the first test of the while loop, grid being the clone.
SolveInit(ref, grid, maxTechnique) ==
  Only({
    LET initialNaked == Len(findNakedSingles(grid, candidates))
        initialHidden == Len(findHiddenSingles(grid, candidates))
    IN [pc |-> "loop", ref |-> ref, grid |-> grid, candidates |-> candidates,
        counts |-> NoCounts, hardest |-> "null", steps |-> 0,
        initialSingles |-> initialNaked + initialHidden,
        maxOrder |-> MaxOrderOf(maxTechnique), progress |-> TRUE,
        last |-> [technique |-> "null", found |-> <<>>]] :
    candidates \in {buildCandidates(grid)}})

\* A loop body that tries the techniques within the cap from the heaviest
\* down.
RECURSIVE HeaviestFrom(_, _, _, _)
HeaviestFrom(grid, candidates, maxOrder, i) ==
  IF i < 1 THEN [technique |-> "null", found |-> <<>>]
  ELSE IF TECHNIQUE_ORDER[Technique[i]] <= maxOrder
  THEN Only({IF Len(found) > 0 THEN [technique |-> Technique[i], found |-> found]
             ELSE HeaviestFrom(grid, candidates, maxOrder, i - 1) :
               found \in {Find(Technique[i], grid, candidates)}})
  ELSE HeaviestFrom(grid, candidates, maxOrder, i - 1)

HeaviestFound(grid, candidates, maxOrder, i) ==
  HeaviestFrom(grid, candidates, maxOrder, Len(Technique))

\* The body of the while loop from its i-th technique on: the technique
\* that gets applied and its findings, "null" if none finds anything.
RECURSIVE FirstFound(_, _, _, _)
FirstFound(grid, candidates, maxOrder, i) ==
  IF i > Len(Technique) THEN [technique |-> "null", found |-> <<>>]
  ELSE IF TECHNIQUE_ORDER[Technique[i]] <= maxOrder
  THEN Only({IF Len(found) > 0 THEN [technique |-> Technique[i], found |-> found]
             ELSE FirstFound(grid, candidates, maxOrder, i + 1) :
               found \in {Find(Technique[i], grid, candidates)}})
  ELSE FirstFound(grid, candidates, maxOrder, i + 1)

\* The test of the while loop and one iteration of its body: the first
\* technique within the cap that finds something is applied to all its
\* findings; if none finds anything, progress stays false.
ApplyFound(ss, first) ==
  LET t == first.technique
      found == first.found
  IN IF t = "null"
     THEN [ss EXCEPT !.progress = FALSE, !.last = first]
     ELSE Only({
       [ss EXCEPT
          !.grid = IF t \in Placing THEN placed.grid ELSE @,
          !.candidates = IF t \in Placing THEN placed.candidates
                         ELSE EliminateFound(@, found, 1, Len(found)),
          !.counts[t] = @ + Len(found),
          !.steps = @ + Len(found),
          !.hardest = IF isHarderThan(t, @) THEN t ELSE @,
          !.progress = TRUE,
          !.last = first] :
       placed \in {IF t \in Placing
                   THEN PlaceEach([grid |-> ss.grid, candidates |-> ss.candidates],
                                  found, 1, Len(found))
                   ELSE [grid |-> ss.grid, candidates |-> ss.candidates]}})

SolveIter(ss) ==
  IF ss.pc # "loop" THEN ss
  ELSE IF ~(ss.progress /\ countEmptyCells(ss.grid) > 0) THEN [ss EXCEPT !.pc = "done"]
  ELSE Only({ApplyFound(ss, first) :
               first \in {FirstFound(ss.grid, ss.candidates, ss.maxOrder, 1)}})

RECURSIVE RunSolve(_, _)
RunSolve(ss, k) ==
  IF ss.pc = "done" THEN ss
  ELSE IF k = 0 THEN SolveIter(ss)
  ELSE Only({RunSolve(half, k - 1) : half \in {RunSolve(ss, k - 1)}})

\* The SolveReport of a finished run.
Report(ss) ==
  [solved |-> countEmptyCells(ss.grid) = 0, steps |-> ss.steps, hardest |-> ss.hardest,
   counts |-> ss.counts, initialSingles |-> ss.initialSingles]

\* The report returned by solveHuman(initialGrid, maxTechnique).
solveHuman(initialGrid, maxTechnique) ==
  Only({Report(RunSolve(start, RunDepth)) :
          start \in {SolveInit(0, initialGrid, maxTechnique)}})

(***************************************************************************)
(* Policy and rating (policy.ts, policy and rating sections)               *)
(***************************************************************************)

Difficulty == <<"Easy", "Medium", "Hard", "Expert">>

DIFFICULTY_POLICY ==
  [Easy |-> [maxTechnique |-> "HiddenSingle", minInitialSingles |-> 8,
             minBoxGivens |-> 1, minLineGivens |-> 1],
   Medium |-> [maxTechnique |-> "NakedPair", minInitialSingles |-> 4,
               minBoxGivens |-> 1, minLineGivens |-> 1],
   Hard |-> [maxTechnique |-> "HiddenTriple", minInitialSingles |-> 2,
             minBoxGivens |-> 1, minLineGivens |-> 0],
   Expert |-> [maxTechnique |-> "XYWing", minInitialSingles |-> 0,
               minBoxGivens |-> 0, minLineGivens |-> 0]]

getPolicyFor(difficulty) == DIFFICULTY_POLICY[difficulty]

\* The number of filled cells among the cells of a list.
Givens(grid, cells) == Len(SelectSeq(cells, LAMBDA p : grid[p[1]][p[2]] # 0))

meetsDistributionGuards(grid, policy) ==
  /\ \A boxIdx \in Idx : ~(Givens(grid, cellsInBox(boxIdx)) < policy.minBoxGivens)
  /\ \A row \in Idx : ~(Givens(grid, cellsInRow(row)) < policy.minLineGivens)
  /\ \A col \in Idx : ~(Givens(grid, cellsInCol(col)) < policy.minLineGivens)

TECHNIQUE_WEIGHTS ==
  [NakedSingle |-> 1, HiddenSingle |-> 1, LockedCandidate |-> 2, NakedPair |-> 3,
   HiddenPair |-> 3, NakedTriple |-> 4, HiddenTriple |-> 4, XWing |-> 5, XYWing |-> 6]

TECHNIQUE_TO_BAND ==
  [NakedSingle |-> "Easy", HiddenSingle |-> "Easy", LockedCandidate |-> "Medium",
   NakedPair |-> "Medium", HiddenPair |-> "Hard", NakedTriple |-> "Hard",
   HiddenTriple |-> "Hard", XWing |-> "Expert", XYWing |-> "Expert"]

techniqueCapFor(difficulty) ==
  CASE difficulty = "Easy" -> "HiddenSingle"
    [] difficulty = "Medium" -> "NakedPair"
    [] difficulty = "Hard" -> "HiddenTriple"
    [] difficulty = "Expert" -> "XYWing"

\* The weighted score over the first i techniques.
RECURSIVE Score(_, _)
Score(counts, i) ==
  IF i = 0 THEN 0
  ELSE Score(counts, i - 1) + TECHNIQUE_WEIGHTS[Technique[i]] * counts[Technique[i]]

\* A rating whose band is that of the heaviest technique with a positive
\* count.
toRatingByCounts(report) ==
  LET used == {i \in 1..Len(Technique) : report.counts[Technique[i]] > 0}
  IN [band |-> IF used # {}
               THEN TECHNIQUE_TO_BAND[Technique[CHOOSE i \in used : \A j \in used : j <= i]]
               ELSE "Easy",
      score |-> Score(report.counts, Len(Technique)),
      hardest |-> report.hardest]

toRating(report) ==
  [band |-> IF report.hardest # "null" THEN TECHNIQUE_TO_BAND[report.hardest] ELSE "Easy",
   score |-> Score(report.counts, Len(Technique)),
   hardest |-> report.hardest]

ratePuzzle(grid) == Only({toRating(report) : report \in {solveHuman(grid, "null")}})

\* A conversion that fills the grid column by column.
stringToGridByColumn(boardString) ==
  [row \in Idx |-> [col \in Idx |-> parseIntOrZero(boardString[col * 9 + row + 1])]]

stringToGrid(boardString) ==
  [row \in Idx |-> [col \in Idx |-> parseIntOrZero(boardString[row * 9 + col + 1])]]

\* bandOrder.indexOf(band)
BandIndex(band) == CHOOSE i \in 0..3 : Difficulty[i + 1] = band

\* A band test that excludes the target band itself.
isBelowBand(rating, targetDifficulty) ==
  BandIndex(rating.band) < BandIndex(targetDifficulty)

isWithinBand(rating, targetDifficulty) ==
  BandIndex(rating.band) <= BandIndex(targetDifficulty)

(***************************************************************************)
(* Inputs of the technique engine                                          *)
(***************************************************************************)

\* A grid from its nine rows, each written as a decimal number.
RECURSIVE Pow10(_)
Pow10(n) == IF n = 0 THEN 1 ELSE 10 * Pow10(n - 1)
GridOfRows(rows) ==
  [row \in Idx |-> [col \in Idx |-> (rows[row + 1] \div Pow10(8 - col)) % 10]]

\* Puzzles with exactly one completion, each with that completion.
SolveBases ==
  << [puzzle |-> GridOfRows(<<125048037, 804375010, 730000485, 280563104, 403709850,
                              500080300, 648157003, 371092508, 952830701>>),
      solution |-> GridOfRows(<<125948637, 864375219, 739216485, 287563194, 413729856,
                                596481372, 648157923, 371692548, 952834761>>)],
     [puzzle |-> GridOfRows(<<40870050, 20130498, 800094070, 538749162, 2000947,
                              4621835, 400010589, 200407316, 301960724>>),
      solution |-> GridOfRows(<<943876251, 627135498, 815294673, 538749162, 162583947,
                                794621835, 476312589, 289457316, 351968724>>)] >>

\* The most cells an input of the technique engine has empty.
MaxSolveHoles == 29

\* The puzzle of a base with only its first n empty cells (row-major) left
\* empty and the others filled from the completion.
PrefixPuzzle(base, n) ==
  LET holes == EmptyCells(base.puzzle)
  IN [row \in Idx |-> [col \in Idx |->
        IF \E i \in 1..n : i <= Len(holes) /\ holes[i] = <<row, col>>
        THEN 0 ELSE base.solution[row][col]]]

\* The technique caps of a call: each technique, or none.
Caps == SeqToSet(Technique) \cup {"null"}

(***************************************************************************)
(* Puzzle generator (board-generator.ts, SudokuGenerator)                  *)
(***************************************************************************)

\* A validity test that looks at the row and the column only.
isValidRowCol(grid, row, col, num) ==
  /\ \A x \in Idx : grid[row][x] # num
  /\ \A x \in Idx : grid[x][col] # num

isValid(grid, row, col, num) ==
  LET startRow == row - (row % 3)
      startCol == col - (col % 3)
  IN /\ \A x \in Idx : grid[row][x] # num
     /\ \A x \in Idx : grid[x][col] # num
     /\ \A i \in 0..2 : \A j \in 0..2 : grid[i + startRow][j + startCol] # num

\* The iterations of the loop of shuffleArray for i from hi down to lo, in
\* that order; draws[i] is the value of Math.floor(Math.random() * (i + 1))
\* at index i. The iterations are split in two halves, the upper one first.
RECURSIVE SwapFrom(_, _, _, _)
SwapFrom(shuffled, draws, hi, lo) ==
  IF hi < lo THEN shuffled
  ELSE IF hi = lo
  THEN LET j == draws[hi]
       IN [shuffled EXCEPT ![hi + 1] = shuffled[j + 1], ![j + 1] = shuffled[hi + 1]]
  ELSE LET mid == (hi + lo) \div 2
       IN Only({SwapFrom(upper, draws, mid, lo) :
                  upper \in {SwapFrom(shuffled, draws, hi, mid + 1)}})

shuffleArray(array, draws) ==
  Only({SwapFrom(shuffled, d, Len(shuffled) - 1, 1) : shuffled \in {array}, d \in {draws}})

copyGrid(grid) == [row \in Idx |-> [col \in Idx |-> grid[row][col]]]

NoRating == [band |-> "null", score |-> 0, hardest |-> "null"]

\* State of one SudokuGenerator inside generatePuzzle: `grid` is this.grid;
\* stack, val are the activations of fillGrid that are inside their loop
\* (cell, shuffled numbers, index of the number being tried) and the value
\* being returned; calls counts the calls of shuffleArray; the other fields
\* are the locals of generatePuzzle and removeCells (pos is the index of the
\* next element of shuffledPositions).
GenIdle ==
  [pc |-> "idle", grid |-> EmptyGrid, stack |-> <<>>, val |-> FALSE, calls |-> 0,
   solution |-> <<>>, bestGrid |-> EmptyGrid, bestRemoved |-> 0,
   bestRating |-> NoRating, retry |-> 0, attemptGrid |-> EmptyGrid,
   removed |-> 0, attempts |-> 0, shuffledPositions |-> <<>>, pos |-> 0]

\* The random draws of the k-th call of shuffleArray made by fillGrid.
FillDraws(tape, k) ==
  [i \in 1..8 |-> (tape[1] * i + tape[2] + tape[3] * k) % (i + 1)]

\* A return after which a caller that is given false gives up its other
\* numbers and returns false as well.
FillGiveUp(g) ==
  IF g.stack = <<>> THEN [g EXCEPT !.pc = "filled"]
  ELSE LET f == Last(g.stack)
       IN IF g.val THEN [g EXCEPT !.stack = Front(@)]
          ELSE [g EXCEPT !.grid[f.row][f.col] = 0, !.stack = Front(@)]

\* The return of an activation of fillGrid to its caller: the outermost one
\* returns to generatePuzzle; a caller that is given true returns true, one
\* that is given false clears its cell and goes on with its next number.
FillReturn(g) ==
  IF g.stack = <<>> THEN [g EXCEPT !.pc = "filled"]
  ELSE LET f == Last(g.stack)
       IN IF g.val THEN [g EXCEPT !.stack = Front(@)]
          ELSE [g EXCEPT !.grid[f.row][f.col] = 0, !.pc = "floop",
                         !.stack[Len(g.stack)].i = f.i + 1]

\* One step of fillGrid: "fcall" is the entry of an activation, "floop" the
\* next iteration of the top activation's loop (the numbers that fail
\* isValid are passed over within the step), "fret" a return carrying val,
\* "filled" the return of the outermost activation.
fillGrid(g, tape) ==
  IF g.pc = "fcall" THEN
    LET rest == {i \in 0..80 : g.grid[i \div 9][i % 9] = 0}
    IN IF rest = {} THEN [g EXCEPT !.pc = "fret", !.val = TRUE]
       ELSE LET i == CHOOSE a \in rest : \A b \in rest : a <= b
                numbers == shuffleArray(<<1, 2, 3, 4, 5, 6, 7, 8, 9>>,
                                        FillDraws(tape, g.calls))
            IN [g EXCEPT !.pc = "floop", !.calls = @ + 1,
                         !.stack = Append(@, [row |-> i \div 9, col |-> i % 9,
                                              numbers |-> numbers, i |-> 1])]
  ELSE IF g.pc = "floop" THEN
    LET f == Last(g.stack)
        ok == {i \in f.i..9 : isValid(g.grid, f.row, f.col, f.numbers[i])}
    IN IF ok = {}
       THEN [g EXCEPT !.pc = "fret", !.val = FALSE, !.stack = Front(@)]
       ELSE LET i == CHOOSE a \in ok : \A b \in ok : a <= b
            IN [g EXCEPT !.pc = "fcall", !.grid[f.row][f.col] = f.numbers[i],
                         !.stack[Len(g.stack)].i = i]
  ELSE IF g.pc = "fret" THEN FillReturn(g)
  ELSE g

\* A limit of ten retries for every difficulty.
tenRetries(difficulty) == 10

maxRetries(difficulty) ==
  IF difficulty = "Expert" \/ difficulty = "Hard" THEN 8 ELSE 5

maxAttempts == 150

\* A clearing that writes the next digit instead of 0.
ClearToNext(attemptGrid, row, col) ==
  [attemptGrid EXCEPT ![row][col] = (@ % 9) + 1]

\* A revert that leaves the cell cleared.
LeaveCleared(attemptGrid, row, col, originalValue) == attemptGrid

\* A removal that is kept whatever the technique engine reports.
NoTechniqueChecks(attemptGrid, removed, difficulty) == TRUE

\* attemptGrid[row][col] = 0
Clear(attemptGrid, row, col) == [attemptGrid EXCEPT ![row][col] = 0]

\* A restore that leaves the cell cleared.
RestoreNothing(attemptGrid, row, col, originalValue) == attemptGrid

\* attemptGrid[row][col] = originalValue
Restore(attemptGrid, row, col, originalValue) ==
  [attemptGrid EXCEPT ![row][col] = originalValue]

\* Checks 3 and 5 alone.
TechniqueChecksNoSingles(attemptGrid, removed, difficulty) ==
  \A report \in {solveHuman(attemptGrid, techniqueCapFor(difficulty))} :
    /\ report.solved
    /\ isWithinBand(toRating(report), difficulty)

\* Checks 3 to 5 of a removal: the grid is solvable within the technique
\* cap, keeps enough initial singles, and its rating is within the band.
TechniqueChecks(attemptGrid, removed, difficulty) ==
  LET policy == getPolicyFor(difficulty)
  IN \A report \in {solveHuman(attemptGrid, techniqueCapFor(difficulty))} :
       /\ report.solved
       /\ ~(removed > 20 /\ report.initialSingles < policy.minInitialSingles)
       /\ isWithinBand(toRating(report), difficulty)

\* One iteration of the loop over shuffledPositions.
RemoveOne(g, difficulty) ==
  LET row == g.shuffledPositions[g.pos][1]
      col == g.shuffledPositions[g.pos][2]
      originalValue == g.attemptGrid[row][col]
      cleared == Clear(g.attemptGrid, row, col)
      h == [g EXCEPT !.attempts = @ + 1, !.pos = @ + 1]
  IN IF originalValue = 0 THEN h
     ELSE IF ~hasUniqueSolution(cleared)
       THEN [h EXCEPT !.attemptGrid = Restore(cleared, row, col, originalValue)]
     ELSE IF g.removed > 10 /\ ~meetsDistributionGuards(cleared, getPolicyFor(difficulty))
       THEN [h EXCEPT !.attemptGrid = Restore(cleared, row, col, originalValue)]
     ELSE IF ~TechniqueChecks(cleared, g.removed, difficulty)
       THEN [h EXCEPT !.attemptGrid = Restore(cleared, row, col, originalValue)]
     ELSE [h EXCEPT !.attemptGrid = cleared, !.removed = @ + 1]

\* An update of the best attempt that compares the numbers of removed cells
\* only.
RetryOutcomeByRemoved(g, difficulty, finalRating) ==
  LET isExactBand == finalRating.band = difficulty
      isBetterThanBest == g.removed > g.bestRemoved
      h == IF isBetterThanBest \/ g.bestRemoved = 0
           THEN [g EXCEPT !.bestGrid = copyGrid(g.attemptGrid),
                          !.bestRemoved = g.removed,
                          !.bestRating = finalRating]
           ELSE g
  IN IF /\ isExactBand
        /\ g.removed >= 20
        /\ meetsDistributionGuards(g.attemptGrid, getPolicyFor(difficulty))
     THEN [h EXCEPT !.pc = "return"]
     ELSE [h EXCEPT !.pc = "retry", !.retry = @ + 1]

\* The end of a retry after the final re-rating: the update of the best
\* attempt and the decision to stop.
RetryOutcome(g, difficulty, finalRating) ==
  LET isExactBand == finalRating.band = difficulty
      prevExactBand == g.bestRating.band = difficulty
      isBetterThanBest ==
        \/ isExactBand /\ ~prevExactBand
        \/ (isExactBand = prevExactBand) /\ g.removed > g.bestRemoved
      h == IF isBetterThanBest \/ g.bestRemoved = 0
           THEN [g EXCEPT !.bestGrid = copyGrid(g.attemptGrid),
                          !.bestRemoved = g.removed,
                          !.bestRating = finalRating]
           ELSE g
  IN IF /\ isExactBand
        /\ g.removed >= 20
        /\ meetsDistributionGuards(g.attemptGrid, getPolicyFor(difficulty))
     THEN [h EXCEPT !.pc = "return"]
     ELSE [h EXCEPT !.pc = "retry", !.retry = @ + 1]

FinishRetry(g, difficulty) ==
  Only({RetryOutcome(g, difficulty, finalRating) :
          finalRating \in {toRating(solveHuman(g.attemptGrid, "null"))}})

(***************************************************************************)
(* Inputs of the generator                                                 *)
(***************************************************************************)

\* The calls of generateSudokuPuzzle.  The values of Math.random() are read
\* from the request: fill is the tape of the calls of shuffleArray made by
\* fillGrid (see FillDraws), positions holds, for each retry of removeCells
\* in turn (starting over after the last), the draws of the shuffle of the
\* 81 positions: its element i is the draw at index i.
Requests ==
  <<
    [difficulty |-> "Easy", fill |-> <<3, 0, 1>>,
     positions |-> <<
       <<
         0, 2, 3, 4, 4, 6, 6, 7, 9, 10, 9, 11, 13, 14, 15, 15, 16, 15, 18,
         18, 17, 20, 23, 22, 22, 23, 23, 28, 28, 29, 30, 30, 32, 34, 35, 36,
         37, 38, 39, 39, 37, 39, 38, 35, 36, 34, 33, 32, 31, 30, 28, 29, 27,
         26, 23, 25, 22, 24, 18, 20, 17, 21, 19, 16, 15, 14, 13, 11, 10, 12,
         7, 9, 6, 3, 8, 2, 5, 4, 0, 1 >> >>],
    [difficulty |-> "Medium", fill |-> <<3, 0, 1>>,
     positions |-> <<
       <<
         0, 2, 3, 2, 2, 2, 7, 7, 8, 9, 8, 9, 12, 14, 12, 16, 16, 16, 16, 20,
         20, 22, 23, 22, 24, 23, 25, 28, 29, 28, 30, 32, 33, 34, 35, 34, 35,
         35, 35, 40, 35, 39, 38, 37, 34, 36, 30, 33, 32, 29, 31, 28, 24, 23,
         27, 26, 25, 22, 20, 21, 16, 19, 18, 15, 17, 12, 14, 9, 13, 11, 10,
         8, 7, 2, 5, 6, 3, 4, 0, 1 >> >>],
    [difficulty |-> "Hard", fill |-> <<3, 0, 1>>,
     positions |-> <<
       <<
         1, 0, 3, 1, 4, 4, 6, 8, 9, 10, 8, 8, 13, 9, 15, 16, 17, 18, 19, 19,
         20, 19, 22, 24, 22, 22, 27, 25, 27, 29, 31, 29, 33, 33, 33, 34, 37,
         38, 38, 40, 39, 37, 38, 34, 36, 35, 33, 32, 31, 29, 30, 27, 25, 28,
         24, 26, 22, 20, 23, 19, 21, 17, 18, 16, 15, 13, 10, 9, 14, 12, 8,
         11, 4, 6, 7, 5, 2, 3, 1, 0 >> >>],
    [difficulty |-> "Expert", fill |-> <<3, 0, 1>>,
     positions |-> <<
       <<
         1, 1, 2, 4, 5, 5, 5, 5, 9, 9, 7, 12, 7, 12, 14, 16, 15, 18, 18, 18,
         21, 19, 18, 24, 25, 24, 25, 28, 28, 30, 28, 31, 31, 31, 31, 36, 37,
         37, 39, 40, 38, 38, 36, 37, 33, 34, 35, 31, 29, 28, 32, 30, 25, 26,
         24, 27, 21, 23, 18, 22, 20, 19, 15, 16, 12, 17, 14, 13, 7, 9, 11,
         10, 5, 6, 4, 8, 3, 2, 1, 0 >> >>],
    [difficulty |-> "Easy", fill |-> <<1, 0, 1>>,
     positions |-> <<
       <<
         1, 2, 3, 4, 5, 6, 7, 8, 9, 10, 11, 12, 13, 14, 15, 16, 17, 18, 19,
         20, 21, 22, 23, 24, 25, 26, 27, 28, 29, 30, 31, 32, 33, 34, 35, 36,
         37, 38, 39, 40, 39, 38, 37, 36, 35, 34, 33, 32, 31, 30, 29, 28, 27,
         26, 25, 24, 23, 22, 21, 20, 19, 18, 17, 16, 15, 14, 13, 12, 11, 10,
         9, 8, 7, 6, 5, 4, 3, 2, 1, 0 >> >>],
    [difficulty |-> "Medium", fill |-> <<2, 0, 2>>,
     positions |-> <<
       <<
         1, 2, 3, 4, 5, 6, 7, 8, 9, 10, 11, 12, 13, 14, 15, 16, 7, 18, 19,
         20, 21, 22, 23, 24, 15, 6, 27, 28, 29, 30, 31, 32, 23, 14, 5, 36,
         37, 38, 39, 40, 31, 22, 13, 4, 45, 46, 47, 48, 39, 30, 21, 12, 3,
         54, 55, 56, 47, 38, 29, 20, 11, 2, 63, 64, 55, 46, 37, 28, 19, 10,
         1, 72, 63, 54, 45, 36, 27, 18, 9, 0 >> >>],
    [difficulty |-> "Hard", fill |-> <<4, 0, 1>>,
     positions |-> <<
       <<
         1, 2, 3, 4, 5, 6, 7, 8, 9, 10, 11, 12, 13, 14, 15, 16, 17, 18, 19,
         20, 21, 22, 23, 24, 25, 26, 27, 28, 29, 30, 31, 32, 33, 34, 33, 36,
         37, 38, 39, 40, 39, 32, 31, 30, 45, 46, 45, 38, 37, 36, 29, 28, 27,
         26, 25, 24, 17, 16, 15, 8, 7, 6, 23, 22, 21, 14, 13, 12, 5, 4, 3,
         20, 19, 18, 11, 10, 9, 2, 1, 0 >> >>],
    [difficulty |-> "Medium", fill |-> <<3, 0, 1>>,
     positions |-> <<
       <<
         1, 2, 3, 4, 5, 6, 7, 8, 9, 10, 11, 12, 13, 14, 15, 16, 17, 18, 19,
         20, 21, 22, 23, 24, 25, 26, 27, 28, 29, 30, 31, 32, 33, 34, 35, 36,
         37, 38, 39, 40, 39, 38, 37, 36, 35, 34, 33, 32, 31, 30, 29, 28, 27,
         26, 25, 24, 23, 22, 21, 20, 19, 18, 17, 16, 15, 14, 13, 12, 11, 10,
         9, 8, 7, 6, 5, 4, 3, 2, 1, 0 >>,
       <<
         0, 2, 3, 2, 2, 2, 7, 7, 8, 9, 8, 9, 12, 14, 12, 16, 16, 16, 16, 20,
         20, 22, 23, 22, 24, 23, 25, 28, 29, 28, 30, 32, 33, 34, 35, 34, 35,
         35, 35, 40, 35, 39, 38, 37, 34, 36, 30, 33, 32, 29, 31, 28, 24, 23,
         27, 26, 25, 22, 20, 21, 16, 19, 18, 15, 17, 12, 14, 9, 13, 11, 10,
         8, 7, 2, 5, 6, 3, 4, 0, 1 >> >>]
  >>

\* Two more calls.  The retries of the first differ: the first two orders
\* end in boards of another band than the target, the second with more cells
\* removed, and the third ends in a board of the target band with fewer
\* cells removed.  In the second, a removal tried with 21 cells removed
\* passes every check but the initial-singles check.
MixedRequests ==
  <<
    [difficulty |-> "Hard", fill |-> <<3, 0, 1>>,
     positions |-> <<Requests[1].positions[1], Requests[2].positions[1],
                     Requests[3].positions[1]>>],
    [difficulty |-> "Easy", fill |-> <<3, 0, 1>>,
     positions |-> <<
       <<
         0, 2, 3, 4, 4, 6, 6, 7, 9, 10, 9, 11, 13, 14, 15, 15, 16, 15, 18,
         18, 21, 20, 23, 22, 22, 23, 23, 28, 28, 29, 30, 30, 32, 34, 35, 36,
         37, 38, 39, 39, 37, 39, 38, 44, 36, 34, 33, 32, 31, 30, 28, 29, 27,
         26, 23, 25, 22, 24, 18, 20, 17, 21, 19, 16, 15, 14, 13, 11, 10, 12,
         7, 9, 6, 3, 8, 2, 5, 4, 0, 1 >> >>]
  >>

AllRequests == Requests \o MixedRequests

(***************************************************************************)
(* State                                                                   *)
(***************************************************************************)

VARIABLES
  req,    \* the call being made and its arguments
  heap,   \* the grids allocated so far
  cs,     \* the running countSolutionsRecursive
  ss,     \* the running solveHuman
  gen,    \* the running generatePuzzle (a SudokuGenerator and its locals)
  ret     \* the value returned to the caller

vars == <<req, heap, cs, ss, gen, ret>>

NoReturn == [kind |-> "none"]

\* The grid object the caller passed (for verifyPuzzleUniqueness, the grid
\* it built from the board string) and the values it held at the call.
CallerRef == 1
CallerInput ==
  IF req.op = "verify" THEN boardToGrid(req.boardString) ELSE req.grid

(***************************************************************************)
(* countSolutions and verifyPuzzleUniqueness, step by step                 *)
(***************************************************************************)

InitCount ==
  /\ \E H \in SUBSET (1..NumHoleCells), ov \in Overrides :
       \/ \E k \in 1..MaxCap :
            /\ req = [op |-> "count", grid |-> InputGrid(H, ov), maxSolutions |-> k]
            /\ heap = <<InputGrid(H, ov)>>
       \/ \E blank \in Blanks :
            /\ req = [op |-> "verify",
                      boardString |-> BoardString(InputGrid(H, ov), blank)]
            /\ heap = <<>>
  /\ cs = CountIdle
  /\ ss = SolveIdle
  /\ gen = GenIdle
  /\ ret = NoReturn

\* countSolutions(grid, maxSolutions): copy the grid, start the search.
CallCountSolutions ==
  /\ req.op = "count" /\ cs.pc = "idle"
  /\ LET a == copyAnyGrid(heap, CallerRef)
     IN /\ heap' = a.heap
        /\ cs' = CountInit(a.ref, a.heap[a.ref], req.maxSolutions)
  /\ UNCHANGED <<req, ss, gen, ret>>

\* verifyPuzzleUniqueness(boardString): build the grid, call countSolutions.
CallVerifyPuzzleUniqueness ==
  /\ req.op = "verify" /\ cs.pc = "idle"
  /\ LET a == copyAnyGrid(Append(heap, boardToGrid(req.boardString)), Len(heap) + 1)
     IN /\ heap' = a.heap
        /\ cs' = CountInit(a.ref, a.heap[a.ref], VerifyCap)
  /\ UNCHANGED <<req, ss, gen, ret>>

\* One step of the search on the working grid.
CountStep ==
  /\ cs.pc \in {"call", "loop", "ret"}
  /\ cs' = countSolutionsRecursive(cs)
  /\ heap' = [heap EXCEPT ![cs.ref] = cs'.grid]
  /\ UNCHANGED <<req, ss, gen, ret>>

ReturnCountSolutions ==
  /\ req.op = "count" /\ cs.pc = "done" /\ ret.kind = "none"
  /\ ret' = [kind |-> "count", solutionCount |-> cs.val]
  /\ UNCHANGED <<req, heap, cs, ss, gen>>

ReturnVerifyPuzzleUniqueness ==
  /\ req.op = "verify" /\ cs.pc = "done" /\ ret.kind = "none"
  /\ ret' = [kind |-> "verify", isUnique |-> (cs.val = 1), solutionCount |-> cs.val]
  /\ UNCHANGED <<req, heap, cs, ss, gen>>

NextCount ==
  \/ CallCountSolutions
  \/ CallVerifyPuzzleUniqueness
  \/ CountStep
  \/ ReturnCountSolutions
  \/ ReturnVerifyPuzzleUniqueness

SpecCount == InitCount /\ [][NextCount]_vars

(***************************************************************************)
(* solveHuman, one iteration of its loop at a time                         *)
(***************************************************************************)

InitSolve ==
  /\ \E b \in 1..Len(SolveBases), n \in 0..MaxSolveHoles, maxTechnique \in Caps :
       /\ n <= Len(EmptyCells(SolveBases[b].puzzle))
       /\ req = [op |-> "solve", grid |-> PrefixPuzzle(SolveBases[b], n),
                 maxTechnique |-> maxTechnique, solution |-> SolveBases[b].solution]
       /\ heap = <<PrefixPuzzle(SolveBases[b], n)>>
  /\ cs = CountIdle
  /\ ss = SolveIdle
  /\ gen = GenIdle
  /\ ret = NoReturn

\* solveHuman(initialGrid, maxTechnique) up to the first test of its loop.
CallSolveHuman ==
  /\ req.op = "solve" /\ ss.pc = "idle"
  /\ LET a == cloneGrid(heap, CallerRef)
     IN /\ heap' = a.heap
        /\ ss' = SolveInit(a.ref, a.heap[a.ref], req.maxTechnique)
  /\ UNCHANGED <<req, cs, gen, ret>>

\* The test of the loop and, if it passes, one iteration.
SolveStep ==
  /\ ss.pc = "loop"
  /\ ss' = SolveIter(ss)
  /\ heap' = [heap EXCEPT ![ss.ref] = ss'.grid]
  /\ UNCHANGED <<req, cs, gen, ret>>

ReturnSolveHuman ==
  /\ req.op = "solve" /\ ss.pc = "done" /\ ret.kind = "none"
  /\ ret' = [kind |-> "solve", report |-> Report(ss)]
  /\ UNCHANGED <<req, heap, cs, ss, gen>>

NextSolve ==
  \/ CallSolveHuman
  \/ SolveStep
  \/ ReturnSolveHuman

SpecSolve == InitSolve /\ [][NextSolve]_vars

\* Either exploratory operation, called on a caller's grid.
InitCalls == InitCount \/ InitSolve
NextCalls == NextCount \/ NextSolve
SpecCalls == InitCalls /\ [][NextCalls]_vars

(***************************************************************************)
(* generateSudokuPuzzle, step by step                                      *)
(***************************************************************************)

Init ==
  /\ \E r \in 1..Len(AllRequests) :
       req = [op |-> "generate", difficulty |-> AllRequests[r].difficulty,
              fill |-> AllRequests[r].fill,
              positions |-> AllRequests[r].positions]
  /\ heap = <<>>
  /\ cs = CountIdle
  /\ ss = SolveIdle
  /\ gen = GenIdle
  /\ ret = NoReturn

\* generateSudokuPuzzle(difficulty): a new generator, whose generatePuzzle
\* resets the grid and calls fillGrid.
generateSudokuPuzzle ==
  /\ req.op = "generate" /\ gen.pc = "idle"
  /\ gen' = [gen EXCEPT !.pc = "fcall", !.grid = EmptyGrid]
  /\ UNCHANGED <<req, heap, cs, ss, ret>>

FillStep ==
  /\ gen.pc \in {"fcall", "floop", "fret"}
  /\ gen' = fillGrid(gen, req.fill)
  /\ UNCHANGED <<req, heap, cs, ss, ret>>

\* fillGrid has returned: generatePuzzle takes the solution string and
\* removeCells runs up to the test of its loop over the retries.
removeCells ==
  /\ gen.pc = "filled"
  /\ gen' = [gen EXCEPT !.pc = "retry",
                        !.solution = gridToString(gen.grid),
                        !.bestGrid = copyGrid(copyGrid(gen.grid)),
                        !.bestRemoved = 0,
                        !.bestRating = NoRating,
                        !.retry = 0]
  /\ UNCHANGED <<req, heap, cs, ss, ret>>

\* The head of one retry, up to the loop over the shuffled positions.
StartRetry ==
  /\ gen.pc = "retry" /\ gen.retry < maxRetries(req.difficulty)
  /\ gen' = [gen EXCEPT
       !.pc = "attempt",
       !.attemptGrid = copyGrid(gen.grid),
       !.removed = 0,
       !.attempts = 0,
       !.calls = @ + 1,
       !.shuffledPositions =
          shuffleArray(Table(AllPositions),
                       req.positions[(gen.retry % Len(req.positions)) + 1]),
       !.pos = 1]
  /\ UNCHANGED <<req, heap, cs, ss, ret>>

RemoveStep ==
  /\ gen.pc = "attempt"
  /\ gen.pos <= Len(gen.shuffledPositions) /\ ~(gen.attempts >= maxAttempts)
  /\ gen' = RemoveOne(gen, req.difficulty)
  /\ UNCHANGED <<req, heap, cs, ss, ret>>

\* The end of a retry; the attemptGrid of the retry stays on the heap.
EndRetry ==
  /\ gen.pc = "attempt"
  /\ gen.pos > Len(gen.shuffledPositions) \/ gen.attempts >= maxAttempts
  /\ gen' = FinishRetry(gen, req.difficulty)
  /\ heap' = Append(heap, gen.attemptGrid)
  /\ UNCHANGED <<req, cs, ss, ret>>

\* removeCells returns bestGrid; generatePuzzle returns the puzzle.
ReturnPuzzle ==
  /\ \/ gen.pc = "return"
     \/ gen.pc = "retry" /\ ~(gen.retry < maxRetries(req.difficulty))
  /\ gen' = [gen EXCEPT !.pc = "done"]
  /\ ret' = [kind |-> "puzzle", board |-> gridToString(gen.bestGrid),
             solution |-> gen.solution, difficulty |-> req.difficulty]
  /\ UNCHANGED <<req, heap, cs, ss>>

Next ==
  \/ generateSudokuPuzzle
  \/ FillStep
  \/ removeCells
  \/ StartRetry
  \/ RemoveStep
  \/ EndRetry
  \/ ReturnPuzzle

Spec == Init /\ [][Next]_vars

(***************************************************************************)
(* Properties of generateSudokuPuzzle                                      *)
(***************************************************************************)

\* The states of removeCells in which attemptGrid holds the working grid of
\* the current retry, and those in which bestGrid is allocated.
InRetry == gen.pc \in {"attempt", "return"}
InRemoveCells == gen.pc \in {"retry", "attempt", "return", "done"}

\* C1: the board returned by generateSudokuPuzzle has exactly one
\* completion, countSolutions(board, 2) = 1; inside removeCells the working
\* grid has exactly one completion after every accepted or reverted removal
\* of every retry, and so has bestGrid at every point.
C1_UniqueBoard ==
  /\ InRetry => countSolutions(gen.attemptGrid, 2) = 1
  /\ InRemoveCells => countSolutions(gen.bestGrid, 2) = 1
  /\ ret.kind = "puzzle" => countSolutions(stringToGrid(ret.board), 2) = 1

\* A returned Expert puzzle with 50 or more cells removed, after a retry in
\* which some removals were reverted.
C1_Witness ==
  /\ ret.kind = "puzzle" /\ ret.difficulty = "Expert"
  /\ countEmptyCells(stringToGrid(ret.board)) >= 50
  /\ gen.attempts > gen.removed + 20

\* C2: board and solution of a returned puzzle are 81 characters long and
\* every character of board is '0' or the character of solution at the same
\* position; removeCells only clears a cell or restores its original value:
\* every cell of the working grid and of bestGrid is 0 or the cell of the
\* filled grid.
C2_GivenConsistent ==
  /\ InRetry => \A row \in Idx, col \in Idx :
                   gen.attemptGrid[row][col] \in {0, gen.grid[row][col]}
  /\ InRemoveCells => \A row \in Idx, col \in Idx :
                         gen.bestGrid[row][col] \in {0, gen.grid[row][col]}
  /\ ret.kind = "puzzle" =>
       /\ Len(ret.board) = 81
       /\ Len(ret.solution) = 81
       /\ \A i \in 1..81 : ret.board[i] = "0" \/ ret.board[i] = ret.solution[i]

\* A Medium puzzle returned by the second retry, with cleared and kept cells.
C2_Witness ==
  /\ ret.kind = "puzzle" /\ ret.difficulty = "Medium" /\ gen.retry = 1
  /\ \E i \in 1..81 : ret.board[i] = "0"
  /\ \E i \in 1..81 : ret.board[i] # "0" /\ ret.board[i] = ret.solution[i]

\* C3: the solution of a returned puzzle holds a digit 1..9 in each of the
\* 81 cells and no row, column or box holds a digit twice; during fillGrid
\* every partial grid is conflict-free.
C3_ValidSolution ==
  /\ ConflictFree(gen.grid)
  /\ ret.kind = "puzzle" =>
       /\ Len(ret.solution) = 81
       /\ \A i \in 1..81 : \E d \in Digits : ret.solution[i] = DigitChars[d + 1]
       /\ ConflictFree(stringToGrid(ret.solution))

\* fillGrid writing into a grid with fewer than 30 empty cells after some
\* activation has returned false.
C3_Witness ==
  /\ gen.pc = "fcall" /\ gen.calls > Len(gen.stack) + 5
  /\ countEmptyCells(gen.grid) < 30

\* C4: the returned board is rated by ratePuzzle in a band at or below the
\* target difficulty in the order Easy < Medium < Hard < Expert (so a puzzle
\* generated for Easy is rated Easy); the same holds of bestGrid after
\* every retry.
C4_WithinBand ==
  /\ gen.pc \in {"retry", "return"} =>
       BandIndex(ratePuzzle(gen.bestGrid).band) <= BandIndex(req.difficulty)
  /\ ret.kind = "puzzle" =>
       LET band == ratePuzzle(stringToGrid(ret.board)).band
       IN /\ BandIndex(band) <= BandIndex(ret.difficulty)
          /\ ret.difficulty = "Easy" => band = "Easy"

\* A returned Hard puzzle that is rated Hard.
C4_Witness ==
  /\ ret.kind = "puzzle" /\ ret.difficulty = "Hard"
  /\ ratePuzzle(stringToGrid(ret.board)).band = "Hard"

(***************************************************************************)
(* Properties of the solution counter                                      *)
(***************************************************************************)

\* The cap of the running call of the counter.
CapOf == IF req.op = "verify" THEN VerifyCap ELSE req.maxSolutions

\* C5: for a grid whose filled cells are conflict-free and a cap k >= 1,
\* with n the number of completions, countSolutions returns n when n < k and
\* a value >= k and <= n when n >= k; hence for k >= 2 it returns 1 exactly
\* when the grid has one completion.
C5_CountsCompletions ==
  (ret.kind \in {"count", "verify"} /\ ConflictFree(CallerInput)) =>
    \A n \in {NumCompletions(CallerInput)} :
      /\ n < CapOf => ret.solutionCount = n
      /\ n >= CapOf => ret.solutionCount >= CapOf /\ ret.solutionCount <= n
      /\ CapOf >= 2 => (ret.solutionCount = 1 <=> n = 1)

\* countSolutions(grid, 2) on a conflict-free grid with four completions.
C5_Witness ==
  /\ ret.kind = "count" /\ req.maxSolutions = 2
  /\ ConflictFree(CallerInput) /\ NumCompletions(CallerInput) = 4
  /\ ret.solutionCount >= 2

\* C6: the value returned by the solution counter never exceeds its cap:
\* solutionCount <= 3 from verifyPuzzleUniqueness, and countSolutions(grid,
\* k) returns at most k.
C6_WithinCap ==
  ret.kind \in {"count", "verify"} => ret.solutionCount <= CapOf

\* verifyPuzzleUniqueness returning on a board with several completions.
C6_Witness ==
  /\ ret.kind = "verify" /\ ConflictFree(CallerInput)
  /\ NumCompletions(CallerInput) >= 4

\* C7: for a grid that has no completion satisfying the row, column and box
\* constraints, countSolutions returns 0.
C7_ZeroWhenUnsolvable ==
  (ret.kind \in {"count", "verify"} /\ NumCompletions(CallerInput) = 0) =>
    ret.solutionCount = 0

\* countSolutions returning on a grid with no completion.
C7_Witness ==
  ret.kind = "count" /\ NumCompletions(CallerInput) = 0

(***************************************************************************)
(* Properties of the exploratory calls                                     *)
(***************************************************************************)

\* C8: countSolutions and solveHuman leave the caller's grid unchanged: the
\* caller's grid holds the values it had at the call in every state of the
\* call and after it; inside countSolutionsRecursive the working grid
\* differs from the input only at the cells of the activations still
\* running, and not at all once the outermost one has returned.
C8_CallerGridKept ==
  /\ Len(heap) >= CallerRef => heap[CallerRef] = CallerInput
  /\ cs.pc \in {"call", "loop", "ret"} =>
       \A row \in Idx, col \in Idx :
          cs.grid[row][col] # CallerInput[row][col] =>
             \E i \in 1..Len(cs.stack) : cs.stack[i].row = row /\ cs.stack[i].col = col
  /\ cs.pc = "done" => cs.grid = CallerInput

\* solveHuman has returned solved after filling cells of its own grid.
C8_Witness ==
  /\ ret.kind = "solve" /\ ret.report.solved /\ ret.report.steps >= 20
  /\ heap[ss.ref] # heap[CallerRef]

(***************************************************************************)
(* Properties of solveHuman                                                *)
(***************************************************************************)

\* The input of the call is conflict-free and req.solution is its one
\* completion.
UniqueInput ==
  /\ ConflictFree(req.grid)
  /\ ConflictFree(req.solution)
  /\ \A row \in Idx, col \in Idx :
        /\ req.solution[row][col] \in Digits
        /\ req.grid[row][col] \in {0, req.solution[row][col]}
  /\ countSolutions(req.grid, 2) = 1

\* C9: for a conflict-free grid with exactly one completion S and every
\* technique cap, at every step of solveHuman each value placed equals S at
\* that cell and S's digit of every still-empty cell remains in its
\* candidate set; so solved = true implies the final grid equals S.
C9_Sound ==
  (ss.pc \in {"loop", "done"} /\ UniqueInput) =>
    /\ \A row \in Idx, col \in Idx :
          /\ ss.grid[row][col] # 0 => ss.grid[row][col] = req.solution[row][col]
          /\ <<row, col>> \in DOMAIN ss.candidates =>
                req.solution[row][col] \in ss.candidates[<<row, col>>]
    /\ (ss.pc = "done" /\ countEmptyCells(ss.grid) = 0) => ss.grid = req.solution

\* An XY-Wing has just been applied to a grid with one completion.
C9_Witness ==
  ss.pc = "loop" /\ ss.last.technique = "XYWing" /\ UniqueInput

\* C10: with maxTechnique = T no technique ordered above T is applied: the
\* count of every technique heavier than T is 0, hardest is null or at or
\* below T, and so is the technique of every iteration.
C10_CapHonoured ==
  (ss.pc \in {"loop", "done"} /\ req.maxTechnique # "null") =>
    LET cap == TECHNIQUE_ORDER[req.maxTechnique]
    IN /\ \A t \in SeqToSet(Technique) : TECHNIQUE_ORDER[t] > cap => ss.counts[t] = 0
       /\ ss.hardest = "null" \/ TECHNIQUE_ORDER[ss.hardest] <= cap
       /\ ss.last.technique = "null" \/ TECHNIQUE_ORDER[ss.last.technique] <= cap
       /\ ret.kind = "solve" =>
            /\ \A t \in SeqToSet(Technique) :
                  TECHNIQUE_ORDER[t] > cap => ret.report.counts[t] = 0
            /\ ret.report.hardest = "null" \/ TECHNIQUE_ORDER[ret.report.hardest] <= cap

\* A capped run that used its heaviest allowed technique and then stopped
\* short of a solution.
C10_Witness ==
  /\ ret.kind = "solve" /\ req.maxTechnique = "LockedCandidate"
  /\ ret.report.counts["LockedCandidate"] > 0 /\ ~ret.report.solved

\* The caps at or above the cap of the call (no cap being the highest).
HigherCaps == {high \in Caps : MaxOrderOf(high) >= MaxOrderOf(req.maxTechnique)}

\* The order of a reported hardest technique, 0 for null.
HardestOrder(hardest) == IF hardest = "null" THEN 0 ELSE TECHNIQUE_ORDER[hardest]

\* C11: for caps low <= high (no cap being the highest), if solveHuman(grid,
\* low) reports solved = true then solveHuman(grid, high) reports solved =
\* true with the same steps, counts and hardest.
C11_HigherCapSameRun ==
  (ret.kind = "solve" /\ ret.report.solved) =>
    \A high \in HigherCaps :
      \A report \in {solveHuman(req.grid, high)} :
        /\ report.solved
        /\ report.steps = ret.report.steps
        /\ report.counts = ret.report.counts
        /\ report.hardest = ret.report.hardest

\* A run capped at HiddenSingle has solved a grid with 20 or more empty cells.
C11_Witness ==
  /\ ret.kind = "solve" /\ ret.report.solved
  /\ req.maxTechnique = "HiddenSingle" /\ countEmptyCells(req.grid) >= 20

\* C12 as stated: for caps low <= high the hardest technique reported with
\* high is never heavier than the hardest reported with low.
C12_NeverHeavier ==
  ret.kind = "solve" =>
    \A high \in HigherCaps :
      HardestOrder(solveHuman(req.grid, high).hardest) <= HardestOrder(ret.report.hardest)

\* C12 amended: for caps low <= high the hardest technique reported with
\* high is never lighter than the hardest reported with low, and it is not
\* heavier either when the run with low reports solved = true.
C12_HardestMonotone ==
  ret.kind = "solve" =>
    \A high \in HigherCaps :
      \A hardest \in {solveHuman(req.grid, high).hardest} :
        /\ HardestOrder(hardest) >= HardestOrder(ret.report.hardest)
        /\ ret.report.solved => HardestOrder(hardest) <= HardestOrder(ret.report.hardest)

\* A run capped at LockedCandidate that stops unsolved on a grid the
\* uncapped run rates with a heavier technique.
C12_Witness ==
  /\ ret.kind = "solve" /\ req.maxTechnique = "LockedCandidate"
  /\ ~ret.report.solved /\ ret.report.hardest = "LockedCandidate"
  /\ HardestOrder(solveHuman(req.grid, "null").hardest) > TECHNIQUE_ORDER["LockedCandidate"]

(***************************************************************************)
(* toRating and isWithinBand on their own                                  *)
(***************************************************************************)

\* The largest usage count of a technique in an input report, and the most
\* techniques with a positive count.
MaxUse == 2
MaxUsed == 3

\* The sum of counts[t] times weight[t] over a set of techniques.
RECURSIVE WeightedSum(_, _, _)
WeightedSum(counts, weight, T) ==
  IF T = {} THEN 0
  ELSE LET t == CHOOSE x \in T : TRUE
       IN counts[t] * weight[t] + WeightedSum(counts, weight, T \ {t})

\* The reports given to toRating: any hardest, any solved flag, and counts
\* within the two bounds; steps is the sum of the counts.
Reports ==
  {[solved |-> solved,
    steps |-> WeightedSum(counts, [t \in SeqToSet(Technique) |-> 1], SeqToSet(Technique)),
    hardest |-> hardest, counts |-> counts, initialSingles |-> 0] :
     solved \in BOOLEAN, hardest \in Caps,
     counts \in {c \in [SeqToSet(Technique) -> 0..MaxUse] :
                   Cardinality({t \in SeqToSet(Technique) : c[t] > 0}) <= MaxUsed}}

InitRating ==
  /\ \E report \in Reports : req = [op |-> "rate", report |-> report]
  /\ heap = <<>>
  /\ cs = CountIdle
  /\ ss = SolveIdle
  /\ gen = GenIdle
  /\ ret = NoReturn

CallToRating ==
  /\ req.op = "rate" /\ ret.kind = "none"
  /\ ret' = [kind |-> "rating", rating |-> toRating(req.report)]
  /\ UNCHANGED <<req, heap, cs, ss, gen>>

CallIsWithinBand ==
  /\ req.op = "rate" /\ ret.kind = "rating"
  /\ \E targetDifficulty \in SeqToSet(Difficulty) :
       ret' = [kind |-> "within", rating |-> ret.rating, target |-> targetDifficulty,
               within |-> isWithinBand(ret.rating, targetDifficulty)]
  /\ UNCHANGED <<req, heap, cs, ss, gen>>

NextRating ==
  \/ CallToRating
  \/ CallIsWithinBand

SpecRating == InitRating /\ [][NextRating]_vars

\* The weights of the technique catalog.
CatalogWeight ==
  [NakedSingle |-> 1, HiddenSingle |-> 2, LockedCandidate |-> 3, NakedPair |-> 4,
   HiddenPair |-> 5, NakedTriple |-> 6, HiddenTriple |-> 7, XWing |-> 8, XYWing |-> 9]

\* C13: toRating's score is the sum over the nine techniques of the usage
\* count times the weight of the technique catalog: NakedSingle 1,
\* HiddenSingle 2, LockedCandidate 3, NakedPair 4, HiddenPair 5, NakedTriple
\* 6, HiddenTriple 7, XWing 8, XYWing 9.
C13_CatalogScore ==
  ret.kind = "rating" =>
    ret.rating.score = WeightedSum(req.report.counts, CatalogWeight, SeqToSet(Technique))

\* toRating has rated a report that used HiddenSingle twice and XYWing once.
C13_Witness ==
  /\ ret.kind = "rating"
  /\ req.report.counts["HiddenSingle"] = 2 /\ req.report.counts["XYWing"] = 1

\* The band of the technique catalog for a hardest technique.
CatalogBand(hardest) ==
  CASE hardest \in {"NakedSingle", "HiddenSingle"} -> "Easy"
    [] hardest \in {"LockedCandidate", "NakedPair"} -> "Medium"
    [] hardest \in {"HiddenPair", "NakedTriple", "HiddenTriple"} -> "Hard"
    [] hardest \in {"XWing", "XYWing"} -> "Expert"
    [] hardest = "null" -> "Easy"

\* C14: toRating assigns the band of the report's hardest technique (Easy
\* for NakedSingle and HiddenSingle, Medium for LockedCandidate and
\* NakedPair, Hard for HiddenPair, NakedTriple and HiddenTriple, Expert for
\* XWing and XYWing, Easy for null), whatever the counts and the solved flag.
C14_BandOfHardest ==
  ret.kind = "rating" =>
    /\ ret.rating.band = CatalogBand(req.report.hardest)
    /\ ret.rating.hardest = req.report.hardest

\* An unsolved report whose hardest is HiddenPair while XYWing has a
\* positive count.
C14_Witness ==
  /\ ret.kind = "rating" /\ ~req.report.solved
  /\ req.report.hardest = "HiddenPair" /\ req.report.counts["XYWing"] > 0
  /\ ret.rating.band = "Hard"

\* The place of a band in the order Easy < Medium < Hard < Expert.
Rank(band) ==
  CASE band = "Easy" -> 1 [] band = "Medium" -> 2 [] band = "Hard" -> 3
    [] band = "Expert" -> 4

\* C15: isWithinBand(rating, target) is true exactly when rating.band is at
\* or below target in the order Easy < Medium < Hard < Expert; it is
\* reflexive and monotone in the target.
C15_WithinBandOrder ==
  ret.kind = "within" =>
    /\ ret.within <=> Rank(ret.rating.band) <= Rank(ret.target)
    /\ isWithinBand(ret.rating, ret.rating.band)
    /\ ret.within =>
         \A above \in SeqToSet(Difficulty) :
            Rank(above) >= Rank(ret.target) => isWithinBand(ret.rating, above)

\* A Hard rating tested against Hard.
C15_Witness ==
  /\ ret.kind = "within" /\ ret.rating.band = "Hard" /\ ret.target = "Hard"
  /\ ret.within

(***************************************************************************)
(* gridToString and stringToGrid on their own                              *)
(***************************************************************************)

\* The largest row and column stride of the patterned input grids.
MaxStride == 3

\* The grids given to gridToString: cells in 0..9 in a pattern, and the
\* inputs of the solution counter.
CodecGrids ==
  {[row \in Idx |-> [col \in Idx |-> (a * row + b * col + k) % 10]] :
      a \in 0..MaxStride, b \in 0..MaxStride, k \in 0..9}
  \cup {InputGrid(H, <<>>) : H \in SUBSET (1..NumHoleCells)}

InitCodec ==
  /\ \E grid \in CodecGrids : req = [op |-> "codec", grid |-> grid]
  /\ heap = <<>>
  /\ cs = CountIdle
  /\ ss = SolveIdle
  /\ gen = GenIdle
  /\ ret = NoReturn

CallGridToString ==
  /\ req.op = "codec" /\ ret.kind = "none"
  /\ ret' = [kind |-> "string", string |-> gridToString(req.grid)]
  /\ UNCHANGED <<req, heap, cs, ss, gen>>

CallStringToGrid ==
  /\ req.op = "codec" /\ ret.kind = "string"
  /\ ret' = [kind |-> "grid", string |-> ret.string, grid |-> stringToGrid(ret.string)]
  /\ UNCHANGED <<req, heap, cs, ss, gen>>

NextCodec ==
  \/ CallGridToString
  \/ CallStringToGrid

SpecCodec == InitCodec /\ [][NextCodec]_vars

\* C16: for every 9x9 grid g with cells in 0..9, stringToGrid(gridToString(g))
\* = g, the string has 81 characters and its character i is the cell at row
\* floor(i / 9), column i mod 9.
C16_RoundTrip ==
  /\ ret.kind \in {"string", "grid"} =>
       /\ Len(ret.string) = 81
       /\ \A i \in 0..80 :
             ret.string[i + 1] = DigitChars[req.grid[i \div 9][i % 9] + 1]
  /\ ret.kind = "grid" => ret.grid = req.grid

\* A round trip of a grid that holds 9 and 0 and differs from its transpose.
C16_Witness ==
  /\ ret.kind = "grid"
  /\ req.grid[0][1] = 9 /\ req.grid[1][0] = 0 /\ req.grid[8][8] # 0

(***************************************************************************)
(* buildCandidates on its own                                              *)
(***************************************************************************)

\* The grids given to buildCandidates: the inputs of the solution counter
\* (with and without clashing givens), those of the technique engine, and
\* the empty grid.
CandidateGrids ==
  {InputGrid(H, ov) : H \in SUBSET (1..NumHoleCells), ov \in Overrides}
  \cup {PrefixPuzzle(SolveBases[b], n) : b \in 1..Len(SolveBases), n \in 0..MaxSolveHoles}
  \cup {EmptyGrid}

InitCandidates ==
  /\ \E grid \in CandidateGrids : req = [op |-> "candidates", grid |-> grid]
  /\ heap = <<>>
  /\ cs = CountIdle
  /\ ss = SolveIdle
  /\ gen = GenIdle
  /\ ret = NoReturn

CallBuildCandidates ==
  /\ req.op = "candidates" /\ ret.kind = "none"
  /\ ret' = [kind |-> "candidates", candidates |-> buildCandidates(req.grid)]
  /\ UNCHANGED <<req, heap, cs, ss, gen>>

NextCandidates == CallBuildCandidates

SpecCandidates == InitCandidates /\ [][NextCandidates]_vars

\* Two different cells share a row, a column or a 3x3 box.
SharesUnit(p, q) ==
  /\ p # q
  /\ \/ p[1] = q[1]
     \/ p[2] = q[2]
     \/ (p[1] \div 3 = q[1] \div 3 /\ p[2] \div 3 = q[2] \div 3)

\* C17: buildCandidates returns a store with an entry for exactly the empty
\* cells, and each entry is exactly the set of digits 1..9 that appear in
\* none of the cell's peers (the cells sharing its row, column or box).
C17_CandidatesOfPeers ==
  ret.kind = "candidates" =>
    /\ DOMAIN ret.candidates = {p \in Idx \X Idx : req.grid[p[1]][p[2]] = 0}
    /\ \A p \in DOMAIN ret.candidates :
          ret.candidates[p] =
            {d \in Digits : \A q \in Idx \X Idx :
                              SharesUnit(p, q) => req.grid[q[1]][q[2]] # d}

\* A store built for a grid with 20 or more empty cells, one of which has a
\* digit excluded by its box alone.
C17_Witness ==
  /\ ret.kind = "candidates" /\ Cardinality(DOMAIN ret.candidates) >= 20
  /\ \E p \in DOMAIN ret.candidates : \E d \in Digits \ ret.candidates[p] :
        \A q \in Idx \X Idx :
           (q # p /\ (q[1] = p[1] \/ q[2] = p[2])) => req.grid[q[1]][q[2]] # d

(***************************************************************************)
(* solveHuman on grids with one empty cell                                 *)
(***************************************************************************)

\* A completed grid with the cell (row, col) emptied and, when digit is not
\* 0, with digit written over the next cell of the row. The first completed
\* grid is taken with every digit written over, the second with none.
OneEmptyGrid(solution, row, col, digit) ==
  [r \in Idx |-> [c \in Idx |->
     IF r = row /\ c = col THEN 0
     ELSE IF digit # 0 /\ r = row /\ c = (col + 1) % 9 THEN digit
     ELSE solution[r][c]]]

\* The caps of these calls: the lightest, and none.
OneEmptyCaps == {Technique[1], "null"}

InitOneEmpty ==
  /\ \E b \in 1..Len(SolveBases), row \in Idx, col \in Idx, digit \in 0..9,
        maxTechnique \in OneEmptyCaps :
       LET grid == OneEmptyGrid(SolveBases[b].solution, row, col, digit)
       IN /\ digit = 0 \/ b = 1
          /\ req = [op |-> "solve", grid |-> grid, maxTechnique |-> maxTechnique,
                    solution |-> SolveBases[b].solution]
          /\ heap = <<grid>>
  /\ cs = CountIdle
  /\ ss = SolveIdle
  /\ gen = GenIdle
  /\ ret = NoReturn

SpecOneEmpty == InitOneEmpty /\ [][NextSolve]_vars

\* The digits held by the cells sharing a row, column or box with p.
PeerDigits(grid, p) ==
  {grid[q[1]][q[2]] : q \in {q \in Idx \X Idx : SharesUnit(p, q)}} \ {0}

\* C18: for a grid with exactly one empty cell whose 20 peers contain eight
\* distinct digits, solveHuman returns solved=true with steps = 1,
\* counts.NakedSingle = 1, every other count 0 and hardest = NakedSingle,
\* having placed the one missing digit.
C18_LastCellIsNakedSingle ==
  \A p \in Idx \X Idx :
    ( /\ ret.kind = "solve"
      /\ {q \in Idx \X Idx : req.grid[q[1]][q[2]] = 0} = {p}
      /\ Cardinality(PeerDigits(req.grid, p)) = 8 )
    => /\ ret.report.solved
       /\ ret.report.steps = 1
       /\ ret.report.counts =
            [t \in SeqToSet(Technique) |-> IF t = "NakedSingle" THEN 1 ELSE 0]
       /\ ret.report.hardest = "NakedSingle"
       /\ ss.grid = [req.grid EXCEPT ![p[1]][p[2]] =
                       CHOOSE d \in Digits : d \notin PeerDigits(req.grid, p)]

\* A returned run on a grid whose one empty cell has eight digits among its
\* peers, one of them written over the completed grid.
C18_Witness ==
  /\ ret.kind = "solve" /\ ret.report.solved
  /\ \E p \in Idx \X Idx :
       /\ {q \in Idx \X Idx : req.grid[q[1]][q[2]] = 0} = {p}
       /\ Cardinality(PeerDigits(req.grid, p)) = 8
       /\ \E q \in Idx \X Idx : q # p /\ req.grid[q[1]][q[2]] # req.solution[q[1]][q[2]]

\* A returned run on a grid whose one empty cell has all nine digits among
\* its peers: no digit is placed.
OneEmptyNoDigit ==
  /\ ret.kind = "solve" /\ ~ret.report.solved /\ ret.report.steps = 0
  /\ \E p \in Idx \X Idx :
       /\ {q \in Idx \X Idx : req.grid[q[1]][q[2]] = 0} = {p}
       /\ Cardinality(PeerDigits(req.grid, p)) = 9

(***************************************************************************)
(* fillGrid on its own                                                     *)
(***************************************************************************)

MaxTape == 2

\* The sequences of random digit orders fillGrid is run with.
FillTapes == {<<a, b, c>> : a \in 0..MaxTape, b \in 0..MaxTape, c \in 0..MaxTape}

InitFill ==
  /\ \E tape \in FillTapes : req = [op |-> "fill", fill |-> tape]
  /\ heap = <<>>
  /\ cs = CountIdle
  /\ ss = SolveIdle
  /\ gen = GenIdle
  /\ ret = NoReturn

\* generatePuzzle resets the grid and calls fillGrid.
CallFillGrid ==
  /\ req.op = "fill" /\ gen.pc = "idle"
  /\ gen' = [gen EXCEPT !.pc = "fcall", !.grid = EmptyGrid]
  /\ UNCHANGED <<req, heap, cs, ss, ret>>

ReturnFillGrid ==
  /\ req.op = "fill" /\ gen.pc = "filled" /\ ret.kind = "none"
  /\ ret' = [kind |-> "fill", val |-> gen.val, grid |-> gen.grid]
  /\ UNCHANGED <<req, heap, cs, ss, gen>>

NextFill ==
  \/ CallFillGrid
  \/ FillStep
  \/ ReturnFillGrid

SpecFill == InitFill /\ [][NextFill]_vars

\* The call is not suspended for ever: JavaScript runs it to completion.
SpecFillFair == SpecFill /\ WF_vars(NextFill)

\* C19: fillGrid started on the empty grid terminates and returns true for
\* every sequence of random digit orders: it never reports failure at the
\* top level and leaves no cell empty.
C19_FillTerminatesTrue ==
  <>(ret.kind = "fill" /\ ret.val /\ countEmptyCells(ret.grid) = 0)

\* A return of fillGrid after some activation has failed and its caller has
\* gone on with another number.
C19_Witness ==
  /\ ret.kind = "fill" /\ ret.val /\ countEmptyCells(ret.grid) = 0
  /\ gen.calls > 81

(***************************************************************************)
(* The retry loop of removeCells                                           *)
(***************************************************************************)

\* The largest number of attempts of a call.
RetryBound(difficulty) ==
  IF difficulty \in {"Easy", "Medium"} THEN 5 ELSE 8

\* The attempt that g has just finished is rated in the target band, has
\* removed at least 20 cells and meets the distribution guards.
Qualifying(g, difficulty) ==
  /\ toRating(solveHuman(g.attemptGrid, "null")).band = difficulty
  /\ countEmptyCells(g.attemptGrid) >= 20
  /\ meetsDistributionGuards(g.attemptGrid, getPolicyFor(difficulty))

\* The loop over the retries has been left.
LoopLeft ==
  \/ gen.pc = "return"
  \/ gen.pc = "retry" /\ gen.retry >= RetryBound(req.difficulty)

\* C20: the retry loop is bounded and never fails: removeCells runs at most
\* 5 attempts for Easy and Medium and at most 8 for Hard and Expert, starts
\* no further attempt after the first attempt whose final rating band equals
\* the target, that removed at least 20 cells and whose grid meets the
\* distribution guards, and always returns a grid, even when no attempt
\* meets that condition.
C20_RetryLoopBounded ==
  /\ [](InRetry => gen.retry + 1 <= RetryBound(req.difficulty))
  /\ [](gen.pc \in {"retry", "done"} => gen.retry <= RetryBound(req.difficulty))
  /\ [][(gen.pc = "attempt" /\ gen'.pc # "attempt" /\ Qualifying(gen', req.difficulty))
          => gen'.pc = "return"]_vars
  /\ [](LoopLeft => ENABLED ReturnPuzzle)
  /\ [][LoopLeft => (gen'.pc = "done" /\ ret'.kind = "puzzle" /\ Len(ret'.board) = 81)]_vars

\* A Hard puzzle returned after eight attempts none of which met the
\* condition.
C20_Witness ==
  /\ ret.kind = "puzzle" /\ req.difficulty = "Hard" /\ gen.retry = 8
  /\ Len(ret.board) = 81
  /\ ~Qualifying(gen, req.difficulty)

\* A puzzle returned after a second attempt that met the condition, no third
\* one having been started.
StoppedAtSecondAttempt ==
  /\ ret.kind = "puzzle" /\ gen.retry = 1
  /\ Qualifying(gen, req.difficulty)

(***************************************************************************)
(* The order of the techniques in the loop of solveHuman                   *)
(***************************************************************************)

\* The findings of technique t have taken effect in the grid and the store.
Applied(t, found, grid, candidates) ==
  \A k \in 1..Len(found) :
    IF t \in Placing
    THEN grid[found[k].row][found[k].col] # 0
    ELSE ~HasCand(candidates, found[k].row, found[k].col, found[k].num)

\* C21: in every iteration of the solveHuman loop a technique is applied
\* only if every lighter technique within the cap has no finding in the
\* state at the start of that iteration; all findings of that one technique
\* are applied, and the next iteration scans again from NakedSingle.
C21_CheapestFirst ==
  [][(ss.pc = "loop" /\ ss'.pc = "loop") =>
       LET t == ss'.last.technique
       IN /\ \A u \in SeqToSet(Technique) :
               ( /\ TECHNIQUE_ORDER[u] <= ss.maxOrder
                 /\ t # "null" => TECHNIQUE_ORDER[u] < TECHNIQUE_ORDER[t] )
               => Find(u, ss.grid, ss.candidates) = <<>>
          /\ t # "null" =>
               /\ TECHNIQUE_ORDER[t] <= ss.maxOrder
               /\ ss'.last.found = Find(t, ss.grid, ss.candidates)
               /\ ss'.last.found # <<>>
               /\ ss'.steps = ss.steps + Len(ss'.last.found)
               /\ ss'.counts = [ss.counts EXCEPT ![t] = @ + Len(ss'.last.found)]
               /\ Applied(t, ss'.last.found, ss'.grid, ss'.candidates)]_vars

\* An iteration, not the first, that applied two or more findings of a
\* technique heavier than the singles, followed by one that applied a single.
C21_Witness ==
  /\ ss.pc = "loop" /\ ss.last.technique \in Placing
  /\ \E t \in SeqToSet(Technique) \ Placing : ss.counts[t] >= 2
  /\ ss.steps > Len(ss.last.found) + 2

(***************************************************************************)
(* The pattern behind the findings of findXYWing                           *)
(***************************************************************************)

\* There are a pivot with candidates {X, Y} and two wings with candidates
\* {X, Z} and {Y, Z}, both peers of the pivot, and cell is a peer of both
\* wings, is not a wing and has Z as a candidate.
XYWingPattern(candidates, cell, z) ==
  LET bi == {p \in DOMAIN candidates : Cardinality(candidates[p]) = 2}
  IN /\ cell \in DOMAIN candidates /\ z \in candidates[cell]
     /\ \E pivot \in bi :
          /\ z \notin candidates[pivot]
          /\ \E wing1 \in bi, wing2 \in bi :
               /\ z \in candidates[wing1] /\ z \in candidates[wing2]
               /\ candidates[wing1] # candidates[wing2]
               /\ (candidates[wing1] \cup candidates[wing2]) \ {z} = candidates[pivot]
               /\ SharesUnit(wing1, pivot) /\ SharesUnit(wing2, pivot)
               /\ SharesUnit(cell, wing1) /\ SharesUnit(cell, wing2)

\* C22: findXYWing reports an elimination of digit Z from a cell only when
\* there are a pivot with candidates exactly {X,Y} and two wings with
\* candidates exactly {X,Z} and {Y,Z} (the two wings share different pivot
\* digits), both wings are peers of the pivot, and the cell is a peer of
\* both wings, is not a wing and has Z as a candidate.  Stated of the store
\* at every test of the loop of solveHuman.
C22_XYWingPattern ==
  ss.pc = "loop" =>
    \A found \in {findXYWing(ss.candidates)} : \A k \in 1..Len(found) :
       XYWingPattern(ss.candidates, <<found[k].row, found[k].col>>, found[k].num)

\* A store of solveHuman in which findXYWing has findings.
C22_Witness ==
  ss.pc = "loop" /\ findXYWing(ss.candidates) # <<>>

\* A store in which findXYWing has a finding that comes with the pattern.
XYWingWithPattern ==
  /\ ss.pc = "loop"
  /\ \E found \in {findXYWing(ss.candidates)} : \E k \in 1..Len(found) :
       XYWingPattern(ss.candidates, <<found[k].row, found[k].col>>, found[k].num)

(***************************************************************************)
(* Termination of solveHuman, on grids with and without clashing givens    *)
(***************************************************************************)

\* The digit written over the last cell of an input: none (0), or 7.
ClashDigits == {0, 7}

\* The caps of these calls: one in the middle of the order, and none.
SolveAnyCaps == {"NakedPair", "null"}

\* A puzzle with its last cell overwritten by digit (left alone for 0).
ClashPuzzle(base, n, digit) ==
  IF digit = 0 THEN PrefixPuzzle(base, n)
  ELSE [PrefixPuzzle(base, n) EXCEPT ![8][8] = digit]

InitSolveAny ==
  /\ \E b \in 1..Len(SolveBases), n \in 0..MaxSolveHoles, digit \in ClashDigits,
        maxTechnique \in SolveAnyCaps :
       LET grid == ClashPuzzle(SolveBases[b], n, digit)
       IN /\ n <= Len(EmptyCells(SolveBases[b].puzzle))
          /\ req = [op |-> "solve", grid |-> grid, maxTechnique |-> maxTechnique,
                    solution |-> SolveBases[b].solution]
          /\ heap = <<grid>>
  /\ cs = CountIdle
  /\ ss = SolveIdle
  /\ gen = GenIdle
  /\ ret = NoReturn

SpecSolveAny == InitSolveAny /\ [][NextSolve]_vars

\* The call is not suspended for ever: JavaScript runs it to completion.
SpecSolveAnyFair == SpecSolveAny /\ WF_vars(NextSolve)

\* Number of empty cells + total number of candidates in the store.
Measure(grid, candidates) ==
  countEmptyCells(grid)
    + Cardinality({pd \in (Idx \X Idx) \X Digits :
                     HasCand(candidates, pd[1][1], pd[1][2], pd[2])})

\* C23: solveHuman terminates for every input grid and cap: every loop
\* iteration that records progress strictly decreases (number of empty
\* cells + total number of candidates in the store), and the loop ends with
\* solved=true exactly when no empty cell remains, otherwise with
\* solved=false after an iteration in which no technique within the cap had
\* a finding.
C23_Terminates ==
  /\ <>(ret.kind = "solve")
  /\ [][(ss.pc = "loop" /\ ss'.pc = "loop" /\ ss'.progress)
          => Measure(ss'.grid, ss'.candidates) < Measure(ss.grid, ss.candidates)]_vars
  /\ [](ret.kind = "solve" =>
          /\ ret.report.solved <=> countEmptyCells(ss.grid) = 0
          /\ ~ret.report.solved =>
               /\ ~ss.progress /\ ss.last.technique = "null"
               /\ \A u \in SeqToSet(Technique) :
                    TECHNIQUE_ORDER[u] <= ss.maxOrder
                      => Find(u, ss.grid, ss.candidates) = <<>>)

\* A run on a grid with clashing givens that has returned solved=false
\* after five or more steps, some of them eliminations.
C23_Witness ==
  /\ ret.kind = "solve" /\ ~ret.report.solved /\ ret.report.steps >= 5
  /\ \E t \in SeqToSet(Technique) \ Placing : ret.report.counts[t] > 0
  /\ ~ConflictFree(req.grid)

(***************************************************************************)
(* buildCandidates followed by calls of place and eliminate                *)
(***************************************************************************)

\* Largest number of calls of place and eliminate after buildCandidates.
MaxOps == 2

\* Numbers of holes of the grids the store is built for.
StoreHoles == {9, 20}

\* The cells and digits the calls are made with: a given and four holes
\* that share a row, a column or a box with one another.
StoreCells == {<<0, 0>>, <<0, 3>>, <<1, 1>>, <<2, 2>>, <<2, 3>>}
StoreDigits == {6, 9}

\* The heap then holds the grid (reference 1) and the store (reference 2).
InitStore ==
  /\ \E b \in 1..Len(SolveBases), n \in StoreHoles, digit \in ClashDigits :
       req = [op |-> "store", grid |-> ClashPuzzle(SolveBases[b], n, digit)]
  /\ heap = <<>>
  /\ cs = CountIdle
  /\ ss = SolveIdle
  /\ gen = GenIdle
  /\ ret = NoReturn

CallBuildStore ==
  /\ req.op = "store" /\ ret.kind = "none"
  /\ heap' = <<req.grid, buildCandidates(req.grid)>>
  /\ ret' = [kind |-> "build", row |-> 0, col |-> 0, num |-> 0, val |-> TRUE, calls |-> 0]
  /\ UNCHANGED <<req, cs, ss, gen>>

CallPlace ==
  /\ req.op = "store" /\ ret.kind # "none" /\ ret.calls < MaxOps
  /\ \E p \in StoreCells, num \in StoreDigits :
       LET placed == place(heap[1], heap[2], p[1], p[2], num)
       IN /\ heap' = <<placed.grid, placed.candidates>>
          /\ ret' = [kind |-> "place", row |-> p[1], col |-> p[2], num |-> num,
                     val |-> TRUE, calls |-> ret.calls + 1]
  /\ UNCHANGED <<req, cs, ss, gen>>

CallEliminate ==
  /\ req.op = "store" /\ ret.kind # "none" /\ ret.calls < MaxOps
  /\ \E p \in StoreCells, num \in StoreDigits :
       /\ heap' = <<heap[1], eliminate(heap[2], p[1], p[2], num)>>
       /\ ret' = [kind |-> "eliminate", row |-> p[1], col |-> p[2], num |-> num,
                  val |-> eliminateReturns(heap[2], p[1], p[2], num),
                  calls |-> ret.calls + 1]
  /\ UNCHANGED <<req, cs, ss, gen>>

NextStore ==
  \/ CallBuildStore
  \/ CallPlace
  \/ CallEliminate

SpecStore == InitStore /\ [][NextStore]_vars

\* No filled cell has an entry, every entry is a subset of 1..9, and no
\* entry contains a digit held by a peer of its cell.
StoreConsistent(grid, candidates) ==
  \A p \in DOMAIN candidates :
    /\ grid[p[1]][p[2]] = 0
    /\ candidates[p] \subseteq 1..9
    /\ \A q \in Idx \X Idx :
         SharesUnit(p, q) => grid[q[1]][q[2]] \notin candidates[p]

\* What place(p, num) does to grid g and store c, giving g2 and c2.
PlaceEffect(g, c, g2, c2, p, num) ==
  /\ g2 = [g EXCEPT ![p[1]][p[2]] = num]
  /\ DOMAIN c2 = DOMAIN c \ {p}
  /\ \A q \in DOMAIN c2 :
       c2[q] = IF SharesUnit(p, q) THEN c[q] \ {num} ELSE c[q]

\* What eliminate(p, num) does to store c, giving c2 and returning val.
EliminateEffect(g, c, g2, c2, p, num, val) ==
  /\ g2 = g
  /\ DOMAIN c2 = DOMAIN c
  /\ \A q \in DOMAIN c2 : c2[q] = IF q = p THEN c[q] \ {num} ELSE c[q]
  /\ val = (p \in DOMAIN c)
  /\ ~val => c2 = c

\* C24: starting from buildCandidates(grid) and after any sequence of place
\* and eliminate operations, no filled cell has an entry, every entry is a
\* subset of 1..9, and no empty cell's entry contains a digit held by one of
\* its peers; place(r,c,n) removes the entry of (r,c) and removes n from
\* every peer's entry and changes nothing else, and eliminate changes only
\* the one cell's set (returning false and changing nothing when the cell
\* has no entry).
C24_StoreConsistent ==
  /\ [](ret.kind \in {"build", "place", "eliminate"}
          => StoreConsistent(heap[1], heap[2]))
  /\ [][ret'.kind = "place" =>
          PlaceEffect(heap[1], heap[2], heap'[1], heap'[2],
                      <<ret'.row, ret'.col>>, ret'.num)]_vars
  /\ [][ret'.kind = "eliminate" =>
          EliminateEffect(heap[1], heap[2], heap'[1], heap'[2],
                          <<ret'.row, ret'.col>>, ret'.num, ret'.val)]_vars

\* A second call that is a place on a cell empty in the input and has taken
\* the digit out of the entry of a peer.
C24_Witness ==
  /\ ret.kind = "place" /\ ret.calls = 2
  /\ <<ret.row, ret.col>> \notin DOMAIN heap[2]
  /\ req.grid[ret.row][ret.col] = 0
  /\ \E q \in DOMAIN heap[2] :
       /\ SharesUnit(<<ret.row, ret.col>>, q)
       /\ ret.num \in buildCandidates(req.grid)[q]
       /\ ret.num \notin heap[2][q]

(***************************************************************************)
(* initialSingles                                                          *)
(***************************************************************************)

\* The digits that no peer of the empty cell p holds.
FreeDigits(grid, p) == Digits \ PeerDigits(grid, p)

\* The empty cells of the grid that NakedSingle or HiddenSingle can fill in
\* the initial candidate state.
SingleCells(grid) ==
  {p \in Idx \X Idx :
     /\ grid[p[1]][p[2]] = 0
     /\ \/ Cardinality(FreeDigits(grid, p)) = 1
        \/ \E d \in FreeDigits(grid, p) :
             \/ \A q \in Idx \X Idx :
                  (q # p /\ q[1] = p[1] /\ grid[q[1]][q[2]] = 0) => d \notin FreeDigits(grid, q)
             \/ \A q \in Idx \X Idx :
                  (q # p /\ q[2] = p[2] /\ grid[q[1]][q[2]] = 0) => d \notin FreeDigits(grid, q)
             \/ \A q \in Idx \X Idx :
                  (q # p /\ getBox(q[1], q[2]) = getBox(p[1], p[2]) /\ grid[q[1]][q[2]] = 0)
                    => d \notin FreeDigits(grid, q)}

\* C25: the report's initialSingles equals the number of empty cells of the
\* input grid that can be filled by NakedSingle or HiddenSingle in the
\* initial candidate state, each cell counted once; so initialSingles never
\* exceeds the number of empty cells.
C25_InitialSinglesCountsCells ==
  ret.kind = "solve" =>
    /\ ret.report.initialSingles = Cardinality(SingleCells(req.grid))
    /\ ret.report.initialSingles <= countEmptyCells(req.grid)

\* A report for a grid with some cell that a single can fill.
C25_Witness ==
  ret.kind = "solve" /\ SingleCells(req.grid) # {} /\ ret.report.initialSingles > 0

\* A report whose initialSingles exceeds the number of empty cells.
MoreSinglesThanCells ==
  ret.kind = "solve" /\ ret.report.initialSingles > countEmptyCells(req.grid)

(***************************************************************************)
(* C26: the best of the attempts                                           *)
(***************************************************************************)

\* What the selection looks at in the final grid of an attempt: whether its
\* band is the target, and how many cells the attempt removed.
Standing(grid, difficulty) ==
  [exact |-> toRating(solveHuman(grid, "null")).band = difficulty,
   removed |-> countEmptyCells(grid)]

\* B beats A.
Beats(B, A) ==
  \/ B.exact /\ ~A.exact
  \/ (B.exact = A.exact) /\ B.removed > A.removed

\* C26: the grid removeCells returns is the final grid of an executed
\* attempt that no executed attempt beats, where an attempt beats another
\* if its final band is the target and the other's is not, or both agree on
\* that and it removed strictly more cells.
C26_BestOfN ==
  ret.kind = "puzzle" =>
    \A standing \in {Table([a \in 1..Len(heap) |-> Standing(heap[a], req.difficulty)])} :
      \E a \in 1..Len(heap) :
        /\ gridToString(heap[a]) = ret.board
        /\ \A b \in 1..Len(heap) : ~Beats(standing[b], standing[a])

\* A returned board that comes from the third attempt, which is of the
\* target band, after a second attempt that removed more cells than the
\* first and than the third.
C26_Witness ==
  /\ ret.kind = "puzzle"
  /\ Len(heap) = 3
  /\ gridToString(heap[3]) = ret.board
  /\ countEmptyCells(heap[2]) > countEmptyCells(heap[1])
  /\ countEmptyCells(heap[2]) > countEmptyCells(heap[3])
  /\ toRating(solveHuman(heap[3], "null")).band = req.difficulty
  /\ toRating(solveHuman(heap[2], "null")).band # req.difficulty

(***************************************************************************)
(* C27: the distribution guards of the returned board                      *)
(***************************************************************************)

\* C27: the board generateSudokuPuzzle returns for a difficulty satisfies
\* the distribution guards of that difficulty: every box holds at least
\* minBoxGivens givens, every row and every column at least minLineGivens.
C27_BoardMeetsGuards ==
  ret.kind = "puzzle" =>
    meetsDistributionGuards(stringToGrid(ret.board), getPolicyFor(ret.difficulty))

\* A returned board with more than 10 cells removed, as many as a removal
\* needs to have the guards checked.
C27_Witness ==
  ret.kind = "puzzle" /\ countEmptyCells(stringToGrid(ret.board)) > 10

\* A returned board that fails the guards of its difficulty: the first 11
\* removals, made unguarded, have emptied a unit below its minimum.
GuardsFailedUnchecked ==
  /\ ret.kind = "puzzle"
  /\ countEmptyCells(stringToGrid(ret.board)) = 11
  /\ ~meetsDistributionGuards(stringToGrid(ret.board), getPolicyFor(ret.difficulty))

(***************************************************************************)
(* C28: the late-stage filters of the removal pass                         *)
(***************************************************************************)

\* The step is a tentative removal: an iteration of the loop on a cell that
\* is not empty.
Tentative ==
  /\ gen.pc = "attempt" /\ gen'.pc = "attempt" /\ gen'.pos = gen.pos + 1
  /\ gen.attemptGrid[gen.shuffledPositions[gen.pos][1]][gen.shuffledPositions[gen.pos][2]] # 0

\* The working grid with the cell of the iteration cleared.
Tried ==
  Clear(gen.attemptGrid, gen.shuffledPositions[gen.pos][1],
        gen.shuffledPositions[gen.pos][2])

\* The removal of the step is accepted.
Accepted == gen'.attemptGrid = Tried /\ gen'.removed = gen.removed + 1

\* The removal of the step is rejected.
Rejected == gen'.attemptGrid = gen.attemptGrid /\ gen'.removed = gen.removed

\* solveHuman under the cap reports enough initial singles for the policy.
EnoughSingles(grid, difficulty) ==
  solveHuman(grid, techniqueCapFor(difficulty)).initialSingles
    >= getPolicyFor(difficulty).minInitialSingles

\* The checks of a removal other than the initial-singles check.
OtherChecks(grid, removed, difficulty) ==
  /\ hasUniqueSolution(grid)
  /\ removed > 10 => meetsDistributionGuards(grid, getPolicyFor(difficulty))
  /\ \A report \in {solveHuman(grid, techniqueCapFor(difficulty))} :
       report.solved /\ isWithinBand(toRating(report), difficulty)

\* C28: a removal tried with more than 20 cells removed is accepted only if
\* solveHuman under the cap reports at least minInitialSingles initial
\* singles, so the working grid of an attempt with 22 or more cells removed
\* has that many; with 20 or fewer cells removed the initial-singles check
\* is not applied (the other checks alone decide), and every tentative
\* removal is either accepted or rejected, rejected if it breaks uniqueness
\* whatever the other checks say.
C28_LateStageFilters ==
  /\ [](gen.pc = "attempt" /\ gen.removed >= 22
          => EnoughSingles(gen.attemptGrid, req.difficulty))
  /\ [][Tentative =>
          \A tried \in {Tried} :
            /\ gen.removed > 20 /\ Accepted
                 => EnoughSingles(tried, req.difficulty)
            /\ gen.removed <= 20
                 => (Accepted <=> OtherChecks(tried, gen.removed, req.difficulty))
            /\ Accepted \/ Rejected
            /\ Accepted => hasUniqueSolution(tried)]_vars

\* An attempt with 21 cells removed, at a removal that passes the other
\* checks and leaves fewer initial singles than the minimum.
C28_Witness ==
  /\ gen.pc = "attempt" /\ gen.removed = 21
  /\ gen.pos <= Len(gen.shuffledPositions)
  /\ gen.attemptGrid[gen.shuffledPositions[gen.pos][1]][gen.shuffledPositions[gen.pos][2]] # 0
  /\ OtherChecks(Tried, gen.removed, req.difficulty)
  /\ ~EnoughSingles(Tried, req.difficulty)

\* A working grid accepted below the threshold with fewer initial singles
\* than the minimum.
AcceptedBelowThreshold ==
  /\ gen.pc = "attempt" /\ gen.removed > 0 /\ gen.removed <= 21
  /\ ~EnoughSingles(gen.attemptGrid, req.difficulty)

(***************************************************************************)
(* C29: one greedy pass per retry                                          *)
(***************************************************************************)

\* The step is an iteration of the loop over shuffledPositions.
Iteration ==
  gen.pc = "attempt" /\ gen'.pc = "attempt" /\ gen'.pos = gen.pos + 1

\* The cells other than the cell of the iteration are left as they were.
OthersKept ==
  \A row, col \in Idx :
    <<row, col>> # gen.shuffledPositions[gen.pos]
      => gen'.attemptGrid[row][col] = gen.attemptGrid[row][col]

\* C29: within one retry each of the 81 cells is tried at most once and the
\* limit of 150 attempts never ends the pass early; an iteration changes no
\* cell but its own; a removal that fails a check leaves its cell at its
\* original value and the removed counter unchanged; an accepted removal
\* is never undone later in the retry.
C29_OneShotPass ==
  /\ [](gen.pc = "attempt" =>
          /\ Len(gen.shuffledPositions) = 81
          /\ \A i, j \in 1..81 :
               gen.shuffledPositions[i] = gen.shuffledPositions[j] => i = j
          /\ gen.attempts = gen.pos - 1
          /\ gen.attempts < maxAttempts
          /\ gen.removed = countEmptyCells(gen.attemptGrid)
          /\ \A row, col \in Idx :
               gen.attemptGrid[row][col] \in {0, gen.grid[row][col]}
          /\ \A i \in gen.pos..81 :
               gen.attemptGrid[gen.shuffledPositions[i][1]][gen.shuffledPositions[i][2]] # 0)
  /\ [][gen.pc = "attempt" /\ gen'.pc # "attempt" => gen.pos = 82]_vars
  /\ [][Iteration =>
          /\ OthersKept
          /\ \A p \in {gen.shuffledPositions[gen.pos]} :
               \/ /\ gen'.attemptGrid[p[1]][p[2]] = 0
                  /\ gen'.removed = gen.removed + 1
               \/ /\ gen'.attemptGrid[p[1]][p[2]] = gen.attemptGrid[p[1]][p[2]]
                  /\ gen'.removed = gen.removed
          /\ \A row, col \in Idx :
               gen.attemptGrid[row][col] = 0 => gen'.attemptGrid[row][col] = 0]_vars

\* The end of a pass over the 81 cells in which some removals were accepted
\* and others were rejected and restored.
C29_Witness ==
  /\ gen.pc = "attempt" /\ gen.pos = 82 /\ gen.attempts = 81
  /\ gen.removed > 0 /\ gen.removed < 81
  /\ \E row, col \in Idx : gen.attemptGrid[row][col] = gen.grid[row][col]

(***************************************************************************)
(* The today route (app/api/today/route.ts): GET                           *)
(***************************************************************************)

\* Number of GET requests in flight.
NumGets == 3

Gets == 1..NumGets

\* The values of new Date() of the requests: two on one day, one on the
\* next.
Instants ==
  {[month |-> "November", day |-> 2, year |-> 2026, hours |-> 9],
   [month |-> "November", day |-> 2, year |-> 2026, hours |-> 21],
   [month |-> "November", day |-> 3, year |-> 2026, hours |-> 9]}

\* The puzzles generated at module load by the server instances.
RandomBoards ==
  {[board |-> gridToString(SolveBases[b].puzzle),
    solution |-> gridToString(SolveBases[b].solution),
    difficulty |-> "Easy"] : b \in 1..2}

\* today.toLocaleDateString("en-US", {year: "numeric", month: "long",
\* day: "numeric"})
toLocaleDateString(today) == <<today.month, today.day, today.year>>

\* null, for a puzzle.
NoPuzzle == [id |-> 0]

\* prisma.puzzle.findUnique({where: {date}}): the record of the date, or
\* null.
findUnique(table, date) ==
  IF \E i \in 1..Len(table) : table[i].date = date
  THEN table[CHOOSE i \in 1..Len(table) : table[i].date = date]
  ELSE NoPuzzle

\* prisma.puzzle.create({data}): the table stores one puzzle per date, and
\* a second record for a date is rejected.
create(table, data) ==
  IF findUnique(table, data.date) # NoPuzzle
  THEN [table |-> table, thrown |-> TRUE]
  ELSE [table |-> Append(table, [id |-> Len(table) + 1] @@ data), thrown |-> FALSE]

\* Response.json({id, board, difficulty})
ResponseJson(puzzle) ==
  [kind |-> "json", id |-> puzzle.id, board |-> puzzle.board,
   difficulty |-> puzzle.difficulty]

\* The response to a request whose handler has thrown.
ResponseError == [kind |-> "error", status |-> 500]

NoResponse == [kind |-> "none"]

\* req[r] is the r-th GET, heap the puzzle table, ret[r] the response.
InitToday ==
  /\ req \in [Gets -> [pc : {"find"}, today : Instants, randomBoard : RandomBoards]]
  /\ heap = <<>>
  /\ cs = CountIdle
  /\ ss = SolveIdle
  /\ gen = GenIdle
  /\ ret = [r \in Gets |-> NoResponse]

\* GET up to the end of "await prisma.puzzle.findUnique" and, if a puzzle
\* is found, to its response.
GetFind(r) ==
  /\ req[r].pc = "find"
  /\ LET formattedDate == toLocaleDateString(req[r].today)
         puzzle == findUnique(heap, formattedDate)
     IN IF puzzle # NoPuzzle
        THEN /\ ret' = [ret EXCEPT ![r] = ResponseJson(puzzle)]
             /\ req' = [req EXCEPT ![r].pc = "done"]
        ELSE /\ req' = [req EXCEPT ![r].pc = "create"]
             /\ ret' = ret
  /\ UNCHANGED <<heap, cs, ss, gen>>

\* GET from "await prisma.puzzle.create" to its response.
GetCreate(r) ==
  /\ req[r].pc = "create"
  /\ LET formattedDate == toLocaleDateString(req[r].today)
         created == create(heap, [board |-> req[r].randomBoard.board,
                                  solution |-> req[r].randomBoard.solution,
                                  difficulty |-> req[r].randomBoard.difficulty,
                                  date |-> formattedDate])
     IN /\ heap' = created.table
        /\ ret' = [ret EXCEPT ![r] =
                     IF created.thrown THEN ResponseError
                     ELSE ResponseJson(created.table[Len(created.table)])]
  /\ req' = [req EXCEPT ![r].pc = "done"]
  /\ UNCHANGED <<cs, ss, gen>>

NextToday == \E r \in Gets : GetFind(r) \/ GetCreate(r)

SpecToday == InitToday /\ [][NextToday]_vars

(***************************************************************************)
(* C30: one puzzle per date under interleaved GETs                         *)
(***************************************************************************)

\* The records of the table for a date.
RecordsOf(date) == {i \in 1..Len(heap) : heap[i].date = date}

\* C30: however the GET requests of one calendar date interleave, at most
\* one puzzle record exists for the date, every response carries the board
\* of that record, and a GET that finds a record of its date creates
\* nothing.
C30_OnePuzzlePerDate ==
  /\ [](\A r \in Gets :
          /\ Cardinality(RecordsOf(toLocaleDateString(req[r].today))) <= 1
          /\ req[r].pc = "done" =>
               \E i \in RecordsOf(toLocaleDateString(req[r].today)) :
                 ret[r].kind = "json" /\ ret[r].board = heap[i].board)
  /\ [][\A r \in Gets :
          /\ req[r].pc = "find" /\ req'[r].pc # "find"
          /\ RecordsOf(toLocaleDateString(req[r].today)) # {}
          => heap' = heap]_vars

\* Two GETs of one date have responded, the first created the record and
\* the second found it.
C30_Witness ==
  \E r, q \in Gets :
    /\ r # q /\ req[r].pc = "done" /\ req[q].pc = "done"
    /\ toLocaleDateString(req[r].today) = toLocaleDateString(req[q].today)
    /\ req[r].today # req[q].today
    /\ ret[r].kind = "json" /\ ret[q].kind = "json" /\ ret[r].id = ret[q].id
    /\ Cardinality(RecordsOf(toLocaleDateString(req[r].today))) = 1

\* Two GETs of one date both found no record; the create of the second was
\* rejected and its response carries no board.
SecondCreateRejected ==
  \E r, q \in Gets :
    /\ r # q /\ req[r].pc = "done" /\ req[q].pc = "done"
    /\ toLocaleDateString(req[r].today) = toLocaleDateString(req[q].today)
    /\ ret[r].kind = "json" /\ ret[q] = ResponseError

====
